---- MODULE Spec2Model ----
(***************************************************************************)
(* A model of the edk2 meta-file parser core: the record tables of         *)
(* parsers/MetaFileStore.py and the platform-description (DSC) parser of   *)
(* parsers/MetaFileParser2.py (raw parse, post-processing, queries).       *)
(*                                                                         *)
(* Conventions.  Python None is the string "None".  Model tags are the     *)
(* names of the MODEL_* constants of CommonDataClass.DataClass without the *)
(* prefix.  A dotted scope value such as "X.Y" is the tuple of its         *)
(* segments <<"X", "Y">>, and None or "" in its place is <<>>.  An optional *)
(* id argument is <<>> for None and <<k>> for the id k.  Text fields are    *)
(* opaque tokens that hold no leading or trailing blanks, so the strip()   *)
(* calls of Insert change nothing.                                         *)
(***************************************************************************)
EXTENDS Integers, Sequences, FiniteSets, TLC

VARIABLES
    shape,      \* SpecStore: the shape of the table under test
    table,      \* SpecStore: that table, [ID, CurrentContent]
    qres,       \* the list returned by the last Query or [], or NoResult
    qarg,       \* the arguments of that Query or []
    cfg,        \* the family of platform files the parser is run on
    pc,         \* where the parser stands inside a [] call, "idle" outside
    call,       \* DataInfo of the [] call under way; SpecStore: the argument
                \* of DisableComponent when it was the last change of the table
    parser,     \* the fields of the top-level DscParser object
    glob,       \* GlobalData and the class-level registries
    file,       \* the lines of the platform file read by Start so far
    hist        \* the resolved rows left by each finished _PostProcess

storeVars == <<shape, table>>

parserVars == <<cfg, pc, call, parser, glob, file, hist>>

vars == <<shape, table, qres, qarg, cfg, pc, call, parser, glob, file, hist>>

-----------------------------------------------------------------------------
(* Bounds of the model *)

MaxRows == 2        \* rows inserted into one table in SpecStore; the table
                    \* holds at most one element more, rows and end flags together
NearMax == 2        \* distance of the near-wrap id counter from the wrap point

-----------------------------------------------------------------------------
(* Program constants *)

ID_STEP == 1
ID_MAX == 99999999
MODEL_FILE_INF == 1011
TableIdBase == 10000000

None == "None"
COMMON == "COMMON"
DEFAULT == "DEFAULT"
NoResult == <<>>

Range(s) == {s[i] : i \in DOMAIN s}

\* A Python bool as the int Python treats it as (True == 1, False == 0); the
\* Enabled column holds such a value, or the -1 of PackageTable's sentinel.
PyBool(b) == IF b THEN 1 ELSE 0

-----------------------------------------------------------------------------
(* MetaFileStore.py: the three table shapes *)

Shapes == {"INF", "DEC", "DSC"}

\* The end-flag rows.  PackageTable's sentinel holds Enabled = -1, the two
\* others Enabled = False.
InfDummy ==
    [ID |-> -1, Model |-> "-1", Value1 |-> "====", Value2 |-> "====", Value3 |-> "====",
     Scope1 |-> "====", Scope2 |-> <<"====">>, BelongsToItem |-> -1,
     StartLine |-> -1, EndLine |-> -1, Enabled |-> PyBool(FALSE)]

DecDummy ==
    [ID |-> -1, Model |-> "-1", Value1 |-> "====", Value2 |-> "====", Value3 |-> "====",
     Scope1 |-> "====", Scope2 |-> <<"====">>, BelongsToItem |-> -1,
     StartLine |-> -1, EndLine |-> -1, Enabled |-> -1]

DscDummy ==
    [ID |-> -1, Model |-> "-1", Value1 |-> "====", Value2 |-> "====", Value3 |-> "====",
     Scope1 |-> "====", Scope2 |-> <<"====">>, Scope3 |-> "====", BelongsToItem |-> -1,
     FromItem |-> -1, StartLine |-> -1, EndLine |-> -1, Enabled |-> PyBool(FALSE)]

Dummy(sh) ==
    CASE sh = "INF" -> InfDummy
      [] sh = "DEC" -> DecDummy
      [] sh = "DSC" -> DscDummy

\* MetaFileTable.__init__
NewTable == [ID |-> 0, CurrentContent |-> <<>>]

\* Python truth of an Enabled value ("if item.Enabled").
Truthy(e) == e # 0

IsIntegrity(t) ==
    IF t.CurrentContent = <<>> THEN FALSE
    ELSE t.CurrentContent[Len(t.CurrentContent)].ID < 0

SetEndFlag(t, sh) ==
    [t EXCEPT !.CurrentContent = Append(@, Dummy(sh))]

\* A GetAll that looks at the Enabled flag alone
GetAllEnabled(item) == Truthy(item.Enabled)

GetAllTest(item) == item.ID >= 0 /\ Truthy(item.Enabled)

GetAll(t) == SelectSeq(t.CurrentContent, GetAllTest)

\* ModuleTable.Insert: the counter wraps to MODEL_FILE_INF + 1 at the bound.
ModuleInsert(t, row) ==
    LET id1 == t.ID + ID_STEP
        id  == IF id1 >= MODEL_FILE_INF + ID_MAX THEN MODEL_FILE_INF + ID_STEP ELSE id1
    IN  [ID |-> id, CurrentContent |-> Append(t.CurrentContent, [row EXCEPT !.ID = id])]

PackageInsert(t, row) ==
    LET id == t.ID + ID_STEP
    IN  [ID |-> id, CurrentContent |-> Append(t.CurrentContent, [row EXCEPT !.ID = id])]

PlatformInsert(t, row) ==
    LET id == t.ID + ID_STEP
    IN  [ID |-> id, CurrentContent |-> Append(t.CurrentContent, [row EXCEPT !.ID = id])]

Insert(sh, t, row) ==
    CASE sh = "INF" -> ModuleInsert(t, row)
      [] sh = "DEC" -> PackageInsert(t, row)
      [] sh = "DSC" -> PlatformInsert(t, row)

\* A ModuleTable.Query that applies no filter on the arch
ModuleQueryAnyArch(t, Model, Arch, Platform, BelongsToItem) ==
    LET T0(item) == item.Model = Model /\ Truthy(item.Enabled)
        T2(item) == (Platform # <<>> /\ Platform # <<COMMON>>)
                        => item.Scope2 \in {<<COMMON>>, <<DEFAULT>>, Platform}
        T3(item) == BelongsToItem # <<>> => item.BelongsToItem = BelongsToItem[1]
        All(item) == T0(item) /\ T2(item) /\ T3(item)
    IN  SelectSeq(t.CurrentContent, All)

\* ModuleTable.Query(Model, Arch, Platform, BelongsToItem)
ModuleQuery(t, Model, Arch, Platform, BelongsToItem) ==
    LET T0(item) == item.Model = Model /\ Truthy(item.Enabled)
        T1(item) == (Arch # None /\ Arch # COMMON) => item.Scope1 \in {COMMON, Arch}
        T2(item) == (Platform # <<>> /\ Platform # <<COMMON>>)
                        => item.Scope2 \in {<<COMMON>>, <<DEFAULT>>, Platform}
        T3(item) == BelongsToItem # <<>> => item.BelongsToItem = BelongsToItem[1]
        All(item) == T0(item) /\ T1(item) /\ T2(item) /\ T3(item)
    IN  SelectSeq(t.CurrentContent, All)

\* PackageTable.Query(Model, Arch): the row filter is "item.Enabled >= 0".
PackageQuery(t, Model, Arch) ==
    LET T0(item) == item.Model = Model /\ item.Enabled >= 0
        T1(item) == (Arch # None /\ Arch # COMMON) => item.Scope1 \in {COMMON, Arch}
        All(item) == T0(item) /\ T1(item)
    IN  SelectSeq(t.CurrentContent, All)

\* A PlatformTable.Query that applies no filter on the second scope
PlatformQueryAnyScope2(t, Model, Scope1, Scope2, BelongsToItem, FromItem) ==
    LET T0(item) == item.Model = Model /\ Truthy(item.Enabled)
        T1(item) == (Scope1 # None /\ Scope1 # COMMON) => item.Scope1 \in {COMMON, Scope1}
        T3(item) == IF BelongsToItem # <<>>
                    THEN item.BelongsToItem = BelongsToItem[1]
                    ELSE item.BelongsToItem < 0
        T4(item) == FromItem # <<>> => item.FromItem = FromItem[1]
        All(item) == T0(item) /\ T1(item) /\ T3(item) /\ T4(item)
    IN  SelectSeq(t.CurrentContent, All)

\* PlatformTable.Query(Model, Scope1, Scope2, BelongsToItem, FromItem)
PlatformQuery(t, Model, Scope1, Scope2, BelongsToItem, FromItem) ==
    LET T0(item) == item.Model = Model /\ Truthy(item.Enabled)
        T1(item) == (Scope1 # None /\ Scope1 # COMMON) => item.Scope1 \in {COMMON, Scope1}
        Sc2 == {<<COMMON>>, <<DEFAULT>>}
                 \cup (IF Len(Scope2) > 1 THEN {<<COMMON>> \o Tail(Scope2)} ELSE {})
                 \cup {Scope2}
        T2(item) == (Scope2 # <<>> /\ Scope2 # <<COMMON>>) => item.Scope2 \in Sc2
        T3(item) == IF BelongsToItem # <<>>
                    THEN item.BelongsToItem = BelongsToItem[1]
                    ELSE item.BelongsToItem < 0
        T4(item) == FromItem # <<>> => item.FromItem = FromItem[1]
        All(item) == T0(item) /\ T1(item) /\ T2(item) /\ T3(item) /\ T4(item)
    IN  SelectSeq(t.CurrentContent, All)

\* A DisableComponent that leaves the records of the component enabled
DisableComponentAlone(t, comp_id) ==
    [t EXCEPT !.CurrentContent =
        [i \in DOMAIN @ |->
            IF @[i].ID = comp_id THEN [@[i] EXCEPT !.Enabled = PyBool(FALSE)] ELSE @[i]]]

\* PlatformTable.DisableComponent(comp_id)
DisableComponent(t, comp_id) ==
    [t EXCEPT !.CurrentContent =
        [i \in DOMAIN @ |->
            IF @[i].ID = comp_id \/ @[i].BelongsToItem = comp_id
            THEN [@[i] EXCEPT !.Enabled = PyBool(FALSE)]
            ELSE @[i]]]

-----------------------------------------------------------------------------
(* MetaFileParser2.py: source lines of a platform description file.  A line *)
(* is [k, a, b, s]: its kind k, two text tokens and, for a section header,  *)
(* the list s of scope triples it declares.                                 *)

UNKNOWN == "UNKNOWN"

Last(q) == q[Len(q)]
SetLast(q, v) == [q EXCEPT ![Len(q)] = v]

ScopeCommon == << <<COMMON, <<COMMON>>, COMMON>> >>
ScopeTwo == << <<"IA32", <<COMMON>>, COMMON>>, <<"X64", <<COMMON>>, COMMON>> >>
ScopeIA32 == << <<"IA32", <<COMMON>>, COMMON>> >>
ScopeX64 == << <<"X64", <<COMMON>>, COMMON>> >>
ScopeIA32Dxe == << <<"IA32", <<"DXE_DRIVER">>, COMMON>> >>
ScopeIA32Store == << <<"IA32", <<COMMON>>, "STANDARD">> >>
ScopeMixedArch == << <<COMMON, <<COMMON>>, COMMON>>, <<"IA32", <<COMMON>>, COMMON>> >>
ScopeMixedType == << <<"IA32", <<COMMON>>, COMMON>>, <<"IA32", <<"DXE_DRIVER">>, COMMON>> >>

Line(k, a, b) == [k |-> k, a |-> a, b |-> b, s |-> <<>>]
SecLine(name, scope) == [k |-> "SEC", a |-> name, b |-> "", s |-> scope]

\* _CurrentLine: the text of a line, as far as the parsers tell texts apart
Text(line) == IF line.k = "ITEM" THEN line.a ELSE line.k

\* DscParser.DataType restricted to section names: name -> model
SectionNames == {"DEFINES", "SKUIDS", "LIBRARYCLASSES", "PCDSFEATUREFLAG", "COMPONENTS"}

DataType(name) ==
    CASE name = "DEFINES" -> "HEADER"
      [] name = "SKUIDS" -> "SKU_ID"
      [] name = "LIBRARYCLASSES" -> "LIBRARY_CLASS"
      [] name = "PCDSFEATUREFLAG" -> "PCD_FEATURE_FLAG"
      [] name = "COMPONENTS" -> "COMPONENT"

\* DscParser.DataType restricted to the directives: directive name -> model
Directives == {"IF", "IFDEF", "IFNDEF", "ELSEIF", "ELSE", "ENDIF", "INCLUDE", "ERROR"}
IfKinds == {"IF", "IFDEF", "IFNDEF"}

\* The name a macro or PCD reference in a directive argument stands for:
\* "$(M)" and "M" name the macro M, "gTok.P" the PCD gTok.P.
NameOf(text) ==
    CASE text \in {"$(M)", "M"} -> <<"M">>
      [] text = "gTok.P" -> <<"gTok", "P">>
      [] text = "gTok.Q" -> <<"gTok", "Q">>
      [] OTHER -> <<text>>

\* dict.update: the entries of d2 override those of d1
Update(d1, d2) == d2 @@ d1

EmptyDict == <<>>

\* The row handed to PlatformTable.Insert by _Store
DscRow(Model, VL, S, Owner, From, LineNo, Enabled) ==
    [ID |-> 0, Model |-> Model, Value1 |-> VL[1], Value2 |-> VL[2], Value3 |-> VL[3],
     Scope1 |-> S[1], Scope2 |-> S[2], Scope3 |-> S[3],
     BelongsToItem |-> Owner, FromItem |-> From,
     StartLine |-> LineNo, EndLine |-> LineNo, Enabled |-> PyBool(Enabled)]

\* MetaFileParser.__init__ followed by DscParser.__init__: a parser over Table.
\* While TableIsRaw, _Table is the object _RawTable and the field Table is
\* not read; afterwards Table is the temporary table of _PostProcess.
NewParser(Table, Owner, From) ==
    [RawTable |-> Table, Table |-> NewTable, TableIsRaw |-> TRUE, Arch |-> "IA32",
     Owner |-> <<Owner>>, From |-> From,
     ValueList |-> <<"", "", "">>, Scope |-> <<>>, LineIndex |-> 0, CurrentLine |-> "",
     SectionType |-> UNKNOWN, SubsectionType |-> UNKNOWN, InSubsection |-> FALSE,
     ItemType |-> UNKNOWN, LastItem |-> -1, Enabled |-> TRUE,
     Finished |-> FALSE, PostProcessed |-> FALSE,
     DirectiveStack |-> <<>>, DirectiveEvalStack |-> <<>>, InDirective |-> -1,
     FileLocalMacros |-> EmptyDict, SectionsMacroDict |-> <<>>, Symbols |-> EmptyDict,
     IdMapping |-> (-1 :> -1), Content |-> <<>>, ContentIndex |-> 0,
     OwnerId |-> EmptyDict, Error |-> ""]

Raise(ps, kind) == [ps EXCEPT !.Error = kind]

\* _Store during Start: Insert into the raw table, the id kept in _LastItem
RawStore(ps, row) ==
    LET t == PlatformInsert(ps.RawTable, row)
    IN  [ps EXCEPT !.RawTable = t, !.LastItem = t.ID]

\* _ConstructSectionMacroDict: the entry of key (section type, scope tuple),
\* appended when new, in insertion order
ConstructSectionMacroDict(ps, Name, Value) ==
    LET key == <<ps.SectionType, ps.Scope>>
        d == ps.SectionsMacroDict
        at == {i \in DOMAIN d : d[i].key = key}
    IN  IF at = {}
        THEN [ps EXCEPT !.SectionsMacroDict =
                 Append(d, [key |-> key, macros |-> (Name :> Value)])]
        ELSE [ps EXCEPT !.SectionsMacroDict =
                 [i \in DOMAIN d |->
                    IF i \in at THEN [d[i] EXCEPT !.macros = Update(@, Name :> Value)]
                    ELSE d[i]]]

\* _SectionHeaderParser
SectionHeaderParser(ps, line) ==
    LET archs == {line.s[i][1] : i \in DOMAIN line.s}
    IN  IF line.a \notin SectionNames
        THEN Raise([ps EXCEPT !.Scope = line.s], "FORMAT_UNKNOWN_ERROR")
        ELSE IF COMMON \in archs /\ Cardinality(archs) > 1
        THEN Raise([ps EXCEPT !.Scope = line.s, !.SectionType = DataType(line.a)],
                   "FORMAT_INVALID")
        ELSE [ps EXCEPT !.Scope = line.s, !.SectionType = DataType(line.a),
                        !.ValueList = <<line.a, "", "">>]

\* _SubsectionHeaderParser
SubsectionHeaderParser(ps, line) ==
    [ps EXCEPT !.SubsectionType = IF line.a \in SectionNames THEN DataType(line.a)
                                  ELSE UNKNOWN,
               !.ValueList = <<line.a, "", "">>]

\* MetaFileParser._Skip
Skip(ps) == [ps EXCEPT !.ValueList = <<ps.CurrentLine, "", "">>]

\* The ParseMacro decorator on a DEFINE or EDK_GLOBAL line
MacroParser(ps, line) ==
    LET Name == <<line.a>>
        p0 == [ps EXCEPT !.ItemType = IF line.k = "EDK_GLOBAL" THEN "GLOBAL_DEFINE"
                                      ELSE "DEFINE"]
        p1 == [p0 EXCEPT !.ValueList = <<line.k, line.a, line.b>>]
    IN  IF line.a = "" THEN Raise(ps, "FORMAT_INVALID")
        ELSE IF line.k = "EDK_GLOBAL"
        THEN IF ps.SectionType # "HEADER" THEN Raise(p0, "FORMAT_INVALID")
             ELSE IF Name \in DOMAIN ps.FileLocalMacros /\ ps.FileLocalMacros[Name] # line.b
             THEN Raise(p0, "FORMAT_INVALID")
             ELSE p1
        ELSE IF ps.InDirective > -1 THEN p1
        ELSE IF ps.SectionType = "HEADER"
             THEN [p1 EXCEPT !.FileLocalMacros = Update(@, Name :> line.b)]
             ELSE ConstructSectionMacroDict(p1, Name, line.b)

\* _PcdParser, lines 1292-1296: a boolean word as PCD value becomes 1 or 0
PcdWord(v) ==
    CASE v \in {"True", "true", "TRUE"} -> "1"
      [] v \in {"False", "false", "FALSE"} -> "0"
      [] OTHER -> v

\* The token space every PCD line of the model names before the dot
TokenSpace == "gTok"

\* The field parsers of the item sections (_DefineParser, _SkuIdParser,
\* _PcdParser, _ComponentParser, _LibraryClassParser).  The line holds the
\* fields a and b with the separator of its section between them.
ItemParser(ps, type, line) ==
    CASE type = "HEADER" ->
            IF line.a = "" \/ line.b = "" THEN Raise(ps, "FORMAT_INVALID")
            ELSE [ps EXCEPT !.ItemType = "HEADER", !.ValueList = <<"", line.a, line.b>>]
      [] type = "PCD_FEATURE_FLAG" ->
            IF line.a = "" \/ line.b = "" THEN Raise(ps, "FORMAT_INVALID")
            ELSE [ps EXCEPT !.ValueList = <<TokenSpace, line.a, PcdWord(line.b)>>]
      [] type = "COMPONENT" ->
            IF line.k = "OPEN"
            THEN [ps EXCEPT !.ValueList = <<line.a, "", "">>,
                            !.InSubsection = TRUE, !.SubsectionType = UNKNOWN]
            ELSE [ps EXCEPT !.ValueList = <<line.a, "", "">>]
      [] OTHER ->
            IF line.a = "" \/ line.b = "" THEN Raise(ps, "FORMAT_INVALID")
            ELSE [ps EXCEPT !.ValueList = <<line.a, line.b, "">>]

\* _SectionParser[SectionType](self)
SectionParser(ps, type, line) ==
    CASE type = "SECTION_HEADER" -> SectionHeaderParser(ps, line)
      [] type = "SUBSECTION_HEADER" -> SubsectionHeaderParser(ps, line)
      [] type = UNKNOWN -> Skip(ps)
      [] OTHER -> IF line.k \in {"DEFINE", "EDK_GLOBAL"} THEN MacroParser(ps, line)
                  ELSE ItemParser(ps, type, line)

\* Start, lines 1071-1072: the id of a component row is kept per arch
NoteOwnerId(ps, Arch) ==
    IF ps.SubsectionType = UNKNOWN /\ ps.InSubsection
    THEN [ps EXCEPT !.OwnerId = Update(@, Arch :> ps.LastItem)]
    ELSE ps

\* Start, lines 1049-1051
OwnerOf(ps, Arch) ==
    IF ps.SubsectionType # UNKNOWN /\ Arch \in DOMAIN ps.OwnerId
    THEN ps.OwnerId[Arch] ELSE Last(ps.Owner)

\* Start, lines 1048-1072: one row per active scope triple
RECURSIVE EmitItem(_, _)
EmitItem(ps, i) ==
    IF i > Len(ps.Scope) THEN ps
    ELSE EmitItem(
            NoteOwnerId(
                RawStore(ps, DscRow(ps.ItemType, ps.ValueList, ps.Scope[i],
                                    OwnerOf(ps, ps.Scope[i][1]), ps.From,
                                    ps.LineIndex + 1, ps.Enabled)),
                ps.Scope[i][1]),
            i + 1)

\* An '!endif' that pops the top entry alone
PopLast(stack) == SubSeq(stack, 1, Len(stack) - 1)

\* _DirectiveParser, lines 1120-1132: '!endif' pops up to the nearest opener
PopToIf(stack) ==
    LET opens == {i \in DOMAIN stack : stack[i] \in IfKinds}
    IN  IF opens = {} THEN <<>>
        ELSE SubSeq(stack, 1, (CHOOSE i \in opens : \A j \in opens : j <= i) - 1)

HasOpener(stack) == \E i \in DOMAIN stack : stack[i] \in IfKinds

\* _DirectiveParser, lines 1147-1166
RECURSIVE StoreDirective(_, _, _, _)
StoreDirective(ps, ItemType, Scope, i) ==
    IF i > Len(Scope) THEN ps
    ELSE StoreDirective(
            RawStore(ps, DscRow(ItemType, ps.ValueList, Scope[i], Last(ps.Owner),
                                ps.From, ps.LineIndex + 1, TRUE)),
            ItemType, Scope, i + 1)

\* _DirectiveParser, lines 1120-1141: the directive stack
DirectiveStackUpdate(ps, line) ==
    CASE line.k = "ENDIF" ->
            IF HasOpener(ps.DirectiveStack)
            THEN [ps EXCEPT !.DirectiveStack = PopToIf(@)]
            ELSE Raise([ps EXCEPT !.DirectiveStack = <<>>], "FORMAT_INVALID")
      [] line.k \in {"INCLUDE", "ERROR"} -> ps
      [] OTHER ->
            IF line.k = "ELSEIF" /\ ps.DirectiveStack # <<>>
                 /\ Last(ps.DirectiveStack) = "ELSE"
            THEN Raise(ps, "FORMAT_INVALID")
            ELSE [ps EXCEPT !.DirectiveStack = Append(@, line.k)]

\* _DirectiveParser, lines 1114-1119
DirectiveScope(ps, line) ==
    IF line.k \in {"INCLUDE", "ERROR"} THEN ps.Scope ELSE ScopeCommon

StoreUnlessError(ps, ItemType, Scope) ==
    IF ps.Error # "" THEN ps ELSE StoreDirective(ps, ItemType, Scope, 1)

\* _DirectiveParser
DirectiveParser(ps, line) ==
    IF line.k \in {"IF", "IFDEF", "INCLUDE", "IFNDEF", "ELSEIF"} /\ line.a = ""
    THEN Raise(ps, "FORMAT_INVALID")
    ELSE StoreUnlessError(
            DirectiveStackUpdate(
                [ps EXCEPT !.ValueList = <<line.k, line.a, "">>,
                           !.InDirective = IF line.k \in IfKinds THEN @ + 1
                                           ELSE IF line.k = "ENDIF" THEN @ - 1 ELSE @],
                line),
            line.k, DirectiveScope(ps, line))

\* Start, lines 1020-1021
IncludeOwner(ps, Arch) ==
    IF ps.SubsectionType # UNKNOWN /\ Arch \in DOMAIN ps.OwnerId
    THEN [ps EXCEPT !.Owner = SetLast(@, ps.OwnerId[Arch])]
    ELSE ps

\* Start, lines 1018-1022: an '!include' line runs _DirectiveParser once per
\* active scope triple
RECURSIVE IncludeLine(_, _, _)
IncludeLine(ps, line, i) ==
    IF i > Len(ps.Scope) \/ ps.Error # "" THEN ps
    ELSE IncludeLine(DirectiveParser(IncludeOwner(ps, ps.Scope[i][1]), line), line, i + 1)

EmitUnlessError(ps) == IF ps.Error # "" THEN ps ELSE EmitItem(ps, 1)

\* Start, lines 1029-1033
ActiveType(ps) == IF ps.InSubsection THEN ps.SubsectionType ELSE ps.SectionType

\* Start, lines 1026-1072: a line handed to the parser of the active section
ItemLine(ps, line) ==
    IF line.k = "SUBSEC" /\ ~ps.InSubsection THEN Raise(ps, "FILE_READ_FAILURE")
    ELSE EmitUnlessError(
            SectionParser([ps EXCEPT !.ItemType = ActiveType(ps),
                                     !.ValueList = <<"", "", "">>],
                          ActiveType(ps), line))

\* Start, lines 998-999
PushOwner(ps) ==
    IF ps.InSubsection /\ Last(ps.Owner) = -1
    THEN [ps EXCEPT !.Owner = Append(@, ps.LastItem)]
    ELSE ps

\* Start, lines 1001-1014: a header line sets the type its parser is found by
HeaderType(ps, line) ==
    CASE line.k = "SEC" -> [ps EXCEPT !.SectionType = "SECTION_HEADER"]
      [] line.k = "SUBSEC" -> [ps EXCEPT !.SubsectionType = "SUBSECTION_HEADER"]
      [] OTHER -> ps

\* Start, lines 1001-1072: the kinds of line
LineDispatch(ps, line) ==
    CASE line.k = "CLOSE" /\ ps.InSubsection ->
            [ps EXCEPT !.InSubsection = FALSE, !.SubsectionType = UNKNOWN,
                       !.Owner = SetLast(@, -1), !.OwnerId = EmptyDict]
      [] line.k = "INCLUDE" -> IncludeLine(ps, line, 1)
      [] line.k \in Directives \ {"INCLUDE"} -> DirectiveParser(ps, line)
      [] OTHER -> ItemLine(HeaderType(ps, line), line)

\* Start, lines 984-1072: the loop body for the line of index Index
ParseLine(ps, Index, line) ==
    LineDispatch(PushOwner([ps EXCEPT !.CurrentLine = Text(line), !.LineIndex = Index]),
                 line)

\* A Start that lets a file end inside a conditional block
EndOfFileUnchecked(ps) ==
    [ps EXCEPT !.Finished = TRUE, !.RawTable = SetEndFlag(@, "DSC")]

\* Start, lines 1074-1078, and _Done
EndOfFile(ps) ==
    IF ps.DirectiveStack # <<>> THEN Raise(ps, "FORMAT_INVALID")
    ELSE [ps EXCEPT !.Finished = TRUE, !.RawTable = SetEndFlag(@, "DSC")]

\* Start over a whole file
RECURSIVE ParseLines(_, _, _)
ParseLines(ps, lines, i) ==
    IF ps.Error # "" THEN ps
    ELSE IF i > Len(lines) THEN EndOfFile(ps)
    ELSE ParseLines(ParseLine(ps, i - 1, lines[i]), lines, i + 1)

-----------------------------------------------------------------------------
(* MetaFileParser2.py: GlobalData, the class-level registries and the macro *)
(* environment.  A dictionary of macros or symbols maps a name, the tuple   *)
(* of its dot-separated segments, to a value.                               *)

\* GlobalData at start-up, DscParser.IncludedFiles, MetaFileParser.MetaFiles
\* and MetaFileStorage._ObjectCache.  The cache is keyed by (Path, FromItem):
\* the FileType and Temporary parts of the key are the same for all entries.
NewGlobals ==
    [IncludedFiles |-> {}, ObjectCache |-> EmptyDict, MetaFiles |-> EmptyDict,
     gPlatformPcds |-> EmptyDict, gEdkGlobal |-> EmptyDict,
     gPlatformDefines |-> EmptyDict, gCommandLineDefines |-> EmptyDict]

\* DscParser.GetTableID
GetTableID(g) == (Cardinality(g.IncludedFiles) + 1) * TableIdBase

\* The files an '!include' can name, as read by Start
FileContent(path) ==
    CASE path = "Sub" -> << Line("ITEM", "s1", "v"), Line("ITEM", "s2", "v") >>
      [] path = "Tail" -> << Line("ITEM", "t1", "v"), Line("ITEM", "t2", "v"),
                             Line("INCLUDE", "Sub", "") >>
      [] path = "Empty" -> <<>>
      [] path = "Cond" -> << Line("IFDEF", "M", ""), Line("ITEM", "c1", "v"),
                             Line("ELSE", "", ""), Line("ENDIF", "", "") >>
      [] path = "Else" -> << Line("ELSE", "", ""), Line("ENDIF", "", "") >>
      [] OTHER -> <<>>

InScope(tr, Scope) == \E i \in DOMAIN Scope : Scope[i] = tr

\* _GetApplicableSectionMacro, lines 482-501: the entry e of the section
\* macro dictionary belongs to the class ComCom, ComSpe or SpeSpe
Applies(ps, e, class) ==
    /\ e.key[1] = ps.SectionType
    /\ CASE class = "SpeSpe" ->
                \A i \in DOMAIN ps.Scope : InScope(ps.Scope[i], e.key[2])
         [] class = "ComSpe" ->
                \A i \in DOMAIN ps.Scope :
                    \/ InScope(ps.Scope[i], e.key[2])
                    \/ InScope(<<ps.Scope[i][1], <<COMMON>>, COMMON>>, e.key[2])
                    \/ InScope(<<COMMON, ps.Scope[i][2], COMMON>>, e.key[2])
         [] OTHER -> InScope(<<COMMON, <<COMMON>>, COMMON>>, e.key[2])

RECURSIVE ClassMacros(_, _, _)
ClassMacros(ps, class, i) ==
    IF i = 0 THEN EmptyDict
    ELSE IF Applies(ps, ps.SectionsMacroDict[i], class)
    THEN Update(ClassMacros(ps, class, i - 1), ps.SectionsMacroDict[i].macros)
    ELSE ClassMacros(ps, class, i - 1)

\* _GetApplicableSectionMacro
ApplicableSectionMacro(ps) ==
    Update(Update(ClassMacros(ps, "ComCom", Len(ps.SectionsMacroDict)),
                  ClassMacros(ps, "ComSpe", Len(ps.SectionsMacroDict))),
           ClassMacros(ps, "SpeSpe", Len(ps.SectionsMacroDict)))

\* GlobalData.gCommandLineDefines as the build may have set it before the
\* parser of family c is constructed
gCommandLineDefines(c) ==
    IF c = "macro" THEN {EmptyDict, <<"M">> :> "cmd"} ELSE {EmptyDict}

\* DscParser._Macros, lines 1363-1364
WithSymbols(ps, m) ==
    IF ps.ItemType \notin {"DEFINE", "GLOBAL_DEFINE"} THEN Update(m, ps.Symbols) ELSE m

\* A _Macros that lays the command-line defines under the macros of the file
MacrosFileOverCommandLine(ps, g) ==
    WithSymbols(ps,
        Update(Update(Update(Update(g.gCommandLineDefines, ps.FileLocalMacros),
                             ApplicableSectionMacro(ps)),
                      g.gEdkGlobal),
               g.gPlatformDefines))

\* DscParser._Macros
Macros(ps, g) ==
    WithSymbols(ps,
        Update(Update(Update(Update(ps.FileLocalMacros, ApplicableSectionMacro(ps)),
                             g.gEdkGlobal),
                      g.gPlatformDefines),
               g.gCommandLineDefines))

\* Common.StringUtils.ReplaceMacro on a value that is either one macro
\* reference or holds none
ReplaceMacro(v, m) ==
    IF v = "$(M)" /\ NameOf(v) \in DOMAIN m THEN m[NameOf(v)] ELSE v

\* Common.Expression.ValueExpression on the expressions of the model: a
\* boolean or numeric literal, or one symbol, which is looked up in the
\* macro environment.  The result is "True", "False" or "SymbolNotFound".
ValueExpression(text, m) ==
    CASE text \in {"TRUE", "1"} -> "True"
      [] text \in {"FALSE", "0"} -> "False"
      [] NameOf(text) \in DOMAIN m ->
            IF m[NameOf(text)] \in {"TRUE", "1"} THEN "True" ELSE "False"
      [] OTHER -> "SymbolNotFound"

\* '|'.join(ValList) for the three-field list [v, '', ''] of a feature flag
JoinFields(v) ==
    CASE v = "1" -> "1||"
      [] v = "0" -> "0||"
      [] OTHER -> "||"

\* (not stack) or (False not in stack)
NoFalse(stack) == \A i \in DOMAIN stack : stack[i]

-----------------------------------------------------------------------------
(* MetaFileParser2.py: DscParser._PostProcess.  The processors take the     *)
(* parser and the globals and return both, as [ps, g].  _Content is indexed *)
(* from 1, so Python's _Content[_ContentIndex] is Content[ContentIndex + 1]. *)

PG(ps, g) == [ps |-> ps, g |-> g]

\* _PostProcess, lines 1409-1421
PostBegin(ps, g) ==
    PG([ps EXCEPT !.Table = NewTable, !.TableIsRaw = FALSE,
                  !.DirectiveStack = <<>>, !.DirectiveEvalStack = <<>>,
                  !.FileLocalMacros = EmptyDict, !.SectionsMacroDict = <<>>,
                  !.Content = GetAll(ps.RawTable), !.ContentIndex = 0,
                  !.InSubsection = FALSE],
       [g EXCEPT !.gPlatformDefines = EmptyDict])

\* __ProcessSectionHeader
ProcessSectionHeader(ps) ==
    [ps EXCEPT !.SectionType = IF ps.ValueList[1] \in SectionNames
                               THEN DataType(ps.ValueList[1]) ELSE UNKNOWN]

\* __ProcessSubsectionHeader
ProcessSubsectionHeader(ps) ==
    [ps EXCEPT !.SubsectionType = IF ps.ValueList[1] \in SectionNames
                                  THEN DataType(ps.ValueList[1]) ELSE UNKNOWN]

\* __ProcessDefine, lines 1578-1596, ps holding the replaced value
DefineMacro(ps, g) ==
    IF ps.InSubsection THEN PG(ps, g)
    ELSE IF ps.ItemType = "DEFINE"
    THEN IF ps.SectionType = "HEADER"
         THEN PG([ps EXCEPT !.FileLocalMacros =
                     Update(@, <<ps.ValueList[2]>> :> ps.ValueList[3])], g)
         ELSE PG(ConstructSectionMacroDict(ps, <<ps.ValueList[2]>>, ps.ValueList[3]), g)
    ELSE IF ps.ItemType = "GLOBAL_DEFINE"
    THEN PG(ps, [g EXCEPT !.gEdkGlobal =
                    Update(@, <<ps.ValueList[2]>> :> ps.ValueList[3])])
    ELSE IF ps.ItemType = "HEADER" /\ ps.SectionType = "HEADER"
    THEN PG([ps EXCEPT !.FileLocalMacros =
                Update(@, <<ps.ValueList[2]>> :> ps.ValueList[3])], g)
    ELSE PG(ps, g)

\* __ProcessDefine
ProcessDefine(ps, g) ==
    IF ~ps.Enabled THEN PG(ps, g)
    ELSE DefineMacro([ps EXCEPT !.ValueList[3] = ReplaceMacro(@, Macros(ps, g))], g)

\* _ProcessError
ProcessError(ps) ==
    IF ~ps.Enabled THEN ps ELSE Raise(ps, "ERROR_STATEMENT")

\* A __ProcessPcd that records the value whatever the evaluation stack holds
ProcessPcdAlways(ps, g) ==
    LET Name == <<ps.ValueList[1], ps.ValueList[2]>>
        PcdValue == ps.ValueList[3]
    IN  PG([ps EXCEPT !.ValueList[3] = JoinFields(PcdValue),
                      !.Symbols = Update(@, Name :> PcdValue)],
           [g EXCEPT !.gPlatformPcds = Update(@, Name :> PcdValue)])

\* __ProcessPcd
ProcessPcd(ps, g) ==
    LET Name == <<ps.ValueList[1], ps.ValueList[2]>>
        PcdValue == ps.ValueList[3]
        p1 == [ps EXCEPT !.ValueList[3] = JoinFields(PcdValue)]
    IN  IF ps.ItemType \notin {"PCD_FEATURE_FLAG", "PCD_FIXED_AT_BUILD"}
        THEN PG([ps EXCEPT !.ValueList[3] = ReplaceMacro(@, Macros(ps, g))], g)
        ELSE IF NoFalse(ps.DirectiveEvalStack)
        THEN PG([p1 EXCEPT !.Symbols = Update(@, Name :> PcdValue)],
                [g EXCEPT !.gPlatformPcds = Update(@, Name :> PcdValue)])
        ELSE PG(p1, g)

\* A __ProcessDirective that takes every condition as true
ConditionTrue(ps, m) == TRUE

\* __ProcessDirective, lines 1600-1631: the result of the condition under
\* the macro environment m
Condition(ps, m) ==
    CASE ps.ItemType \in {"IF", "ELSEIF"} -> ValueExpression(ps.ValueList[2], m) = "True"
      [] ps.ItemType = "IFDEF" -> NameOf(ps.ValueList[2]) \in DOMAIN m
      [] ps.ItemType = "IFNDEF" -> NameOf(ps.ValueList[2]) \notin DOMAIN m
      [] OTHER -> TRUE

\* __ProcessDirective, lines 1640-1647: the number of entries '!endif' pops
\* from each of the two stacks
Popped(stack) == Len(stack) - Len(PopToIf(stack))

\* A __ProcessDirective whose '!elseif' pushes its result and leaves the
\* entry below as it is
ConditionalKeepsTop(ps, Result) ==
    CASE ps.ItemType \in IfKinds ->
            [ps EXCEPT !.DirectiveStack = Append(@, ps.ItemType),
                       !.DirectiveEvalStack = Append(@, Result)]
      [] ps.ItemType = "ELSEIF" ->
            IF ps.DirectiveEvalStack = <<>>
            THEN Raise([ps EXCEPT !.DirectiveStack = Append(@, ps.ItemType)], "IndexError")
            ELSE [ps EXCEPT !.DirectiveStack = Append(@, ps.ItemType),
                            !.DirectiveEvalStack = Append(@, Result)]
      [] ps.ItemType = "ELSE" ->
            IF ps.DirectiveEvalStack = <<>>
            THEN Raise([ps EXCEPT !.DirectiveStack = Append(@, ps.ItemType)], "IndexError")
            ELSE [ps EXCEPT !.DirectiveStack = Append(@, ps.ItemType),
                            !.DirectiveEvalStack = Append(SetLast(@, ~Last(@)), Result)]
      [] OTHER ->
            IF Len(ps.DirectiveEvalStack) < Popped(ps.DirectiveStack)
            THEN Raise(ps, "IndexError")
            ELSE [ps EXCEPT !.DirectiveStack = PopToIf(@),
                            !.DirectiveEvalStack =
                                SubSeq(@, 1, Len(@) - Popped(ps.DirectiveStack))]

\* __ProcessDirective, lines 1619-1648: the two stacks
Conditional(ps, Result) ==
    CASE ps.ItemType \in IfKinds ->
            [ps EXCEPT !.DirectiveStack = Append(@, ps.ItemType),
                       !.DirectiveEvalStack = Append(@, Result)]
      [] ps.ItemType \in {"ELSEIF", "ELSE"} ->
            IF ps.DirectiveEvalStack = <<>>
            THEN Raise([ps EXCEPT !.DirectiveStack = Append(@, ps.ItemType)], "IndexError")
            ELSE [ps EXCEPT !.DirectiveStack = Append(@, ps.ItemType),
                            !.DirectiveEvalStack = Append(SetLast(@, ~Last(@)), Result)]
      [] OTHER ->
            IF Len(ps.DirectiveEvalStack) < Popped(ps.DirectiveStack)
            THEN Raise(ps, "IndexError")
            ELSE [ps EXCEPT !.DirectiveStack = PopToIf(@),
                            !.DirectiveEvalStack =
                                SubSeq(@, 1, Len(@) - Popped(ps.DirectiveStack))]

\* __ProcessDirective, lines 1600-1648: the conditional directives
ProcessConditional(ps, g) == Conditional(ps, Condition(ps, Macros(ps, g)))

\* DscParser.__init__ on the parser object of an included file: skipped when
\* the object exists and already works on the table of key
IsInit(g, path, key) == ~(path \in DOMAIN g.MetaFiles /\ g.MetaFiles[path].Table = key)

\* MetaFileStorage(IncludedFile1, MODEL_FILE_DSC, False, FromItem=FromItem)
\* followed by Table.ID = self.GetTableID() when __init__ runs
IncludedTable(g, path, key) ==
    IF key \in DOMAIN g.ObjectCache
    THEN IF IsInit(g, path, key) THEN [g.ObjectCache[key] EXCEPT !.ID = GetTableID(g)]
         ELSE g.ObjectCache[key]
    ELSE [NewTable EXCEPT !.ID = GetTableID(g)]

Parsed(ps) == [table |-> ps.RawTable, Finished |-> ps.Finished, Error |-> ps.Error]

\* A StartParse that runs Start whatever the table holds
IncludedStartAlways(ps, Finished, lines) == Parsed(ParseLines(ps, lines, 1))

\* StartParse of the included file's parser
IncludedStart(ps, Finished, lines) ==
    IF Finished \/ IsIntegrity(ps.RawTable)
    THEN [table |-> ps.RawTable, Finished |-> TRUE, Error |-> ""]
    ELSE Parsed(ParseLines(ps, lines, 1))

\* __ProcessDirective, lines 1685-1700: the table and the parser of an
\* included file, and its parse.  The result is [table, Finished, Error].
IncludedParse(ps, g, path, FromItem, Owner) ==
    IncludedStart(
        [NewParser(IncludedTable(g, path, <<path, FromItem>>), Owner, FromItem) EXCEPT
            !.SubsectionType = ps.SubsectionType, !.InSubsection = ps.InSubsection,
            !.SectionType = ps.SectionType, !.Scope = ps.Scope,
            !.Enabled = ps.Enabled],
        IF IsInit(g, path, <<path, FromItem>>) THEN FALSE ELSE g.MetaFiles[path].Finished,
        FileContent(path))

\* A splice that puts the records of the included file at the end of _Content
SpliceAtEnd(Content, Index, Records) ==
    SubSeq(Content, 1, Index - 1) \o SubSeq(Content, Index + 1, Len(Content)) \o Records

\* __ProcessDirective, lines 1702-1707: the records of the included file
\* take the place of the include record in _Content
Splice(Content, Index, Records) ==
    SubSeq(Content, 1, Index - 1) \o Records \o SubSeq(Content, Index + 1, Len(Content))

\* __ProcessDirective, lines 1685-1707, r being the parse of the included file
Included(ps, g, path, FromItem, r) ==
    PG(IF r.Error # "" THEN Raise(ps, r.Error)
       ELSE IF GetAll(r.table) # <<>>
       THEN [ps EXCEPT !.Content = Splice(@, ps.ContentIndex, GetAll(r.table)),
                       !.ValueList = <<>>,
                       !.ContentIndex = @ - 1]
       ELSE ps,
       [g EXCEPT !.ObjectCache = Update(@, <<path, FromItem>> :> r.table),
                 !.MetaFiles = Update(@, path :> [Table |-> <<path, FromItem>>,
                                                 Finished |-> r.Finished])])

\* The path by which a platform file names itself in an '!include'
Self == "Self"

\* DscParser(IncludedFile1, ...) for the file of the running parser: __new__
\* returns the running object, and __init__ runs on it, since its _Table is
\* the temporary table of _PostProcess and not the table given.  _ContentIndex
\* is no field of __init__; _Content is None afterwards.
SelfInit(ps, g, FromItem, Owner) ==
    [NewParser(IncludedTable(g, Self, <<Self, FromItem>>), Owner, FromItem) EXCEPT
        !.ContentIndex = ps.ContentIndex]

\* StartParse of the running parser on its own file
SelfStart(ps, lines) ==
    IF IsIntegrity(ps.RawTable) THEN [ps EXCEPT !.Finished = TRUE]
    ELSE ParseLines(ps, lines, 1)

\* __ProcessDirective, lines 1685-1707, for the file of the running parser,
\* p being the parser after StartParse: the splice into _Content, which is
\* None, raises TypeError
SelfIncluded(p, g, FromItem) ==
    PG(IF p.Error = "" /\ GetAll(p.RawTable) # <<>> THEN Raise(p, "TypeError") ELSE p,
       [g EXCEPT !.ObjectCache = Update(@, <<Self, FromItem>> :> p.RawTable)])

\* __ProcessDirective, lines 1680-1688, rec being the include record
IncludeFrom(ps, g, path, rec) ==
    IF path = Self
    THEN SelfIncluded(SelfStart(SelfInit(ps, g, rec.ID,
                                         IF ps.InSubsection THEN rec.BelongsToItem
                                         ELSE rec.ID),
                                file),
                      g, rec.ID)
    ELSE Included(ps, g, path, rec.ID,
                  IncludedParse(ps, g, path, rec.ID,
                                IF ps.InSubsection THEN rec.BelongsToItem ELSE rec.ID))

\* __ProcessDirective without the test of _Enabled ahead of the expansion
ProcessIncludeAlways(ps, g) ==
    IncludeFrom(ps,
                [g EXCEPT !.IncludedFiles =
                    @ \cup {ReplaceMacro(ps.ValueList[2], Macros(ps, g))}],
                ReplaceMacro(ps.ValueList[2], Macros(ps, g)),
                ps.Content[ps.ContentIndex])

\* __ProcessDirective, lines 1649-1707: '!include'
ProcessInclude(ps, g) ==
    IF ~ps.Enabled THEN PG(ps, g)
    ELSE IncludeFrom(ps,
                     [g EXCEPT !.IncludedFiles =
                         @ \cup {ReplaceMacro(ps.ValueList[2], Macros(ps, g))}],
                     ReplaceMacro(ps.ValueList[2], Macros(ps, g)),
                     ps.Content[ps.ContentIndex])

\* Processer[self._ItemType]()
Processer(ps, g) ==
    CASE ps.ItemType = "SECTION_HEADER" -> PG(ProcessSectionHeader(ps), g)
      [] ps.ItemType = "SUBSECTION_HEADER" -> PG(ProcessSubsectionHeader(ps), g)
      [] ps.ItemType \in {"HEADER", "DEFINE", "GLOBAL_DEFINE"} -> ProcessDefine(ps, g)
      [] ps.ItemType = "INCLUDE" -> ProcessInclude(ps, g)
      [] ps.ItemType \in Directives \ {"INCLUDE", "ERROR"} -> PG(ProcessConditional(ps, g), g)
      [] ps.ItemType = "ERROR" -> PG(ProcessError(ps), g)
      [] ps.ItemType = "PCD_FEATURE_FLAG" -> ProcessPcd(ps, g)
      [] ps.ItemType = "COMPONENT" ->
            PG([ps EXCEPT !.ValueList[1] = ReplaceMacro(@, Macros(ps, g))], g)
      [] ps.ItemType = "LIBRARY_CLASS" ->
            PG([ps EXCEPT !.ValueList[2] = ReplaceMacro(@, Macros(ps, g))], g)
      [] ps.ItemType = "SKU_ID" ->
            PG([ps EXCEPT !.ValueList =
                    [i \in 1..3 |-> ReplaceMacro(ps.ValueList[i], Macros(ps, g))]], g)
      [] OTHER -> PG([ps EXCEPT !.ValueList[1] = ps.CurrentLine], g)

\* _PostProcess, lines 1450-1459: the records after an include record that
\* stand on its line add their scope to _Scope and are passed over
RECURSIVE MergeInclude(_, _, _, _)
MergeInclude(Content, Index, item, Scope) ==
    IF Index >= Len(Content) THEN [Index |-> Index, Scope |-> Scope]
    ELSE LET Record == Content[Index + 1]
             tr == <<Record.Scope1, Record.Scope2, Record.Scope3>>
         IN  IF item.StartLine = Record.StartLine /\ item.EndLine = Record.EndLine
             THEN MergeInclude(Content, Index + 1, item,
                               IF \E i \in DOMAIN Scope : Scope[i] = tr THEN Scope
                               ELSE Append(Scope, tr))
             ELSE [Index |-> Index, Scope |-> Scope]

\* _PostProcess, lines 1501-1521, t being the resolved table after the Insert
Stored(ps, g, item, t) ==
    PG([ps EXCEPT !.Enabled = NoFalse(ps.DirectiveEvalStack), !.Table = t,
                  !.LastItem = t.ID, !.IdMapping = Update(@, item.ID :> t.ID)], g)

\* A _PostProcess that stores every record enabled
StoreResolvedEnabled(ps, g, item) ==
    IF ps.Error # "" \/ ps.ValueList = <<>> THEN PG(ps, g)
    ELSE Stored(ps, g, item,
                PlatformInsert(ps.Table,
                    DscRow(ps.ItemType, ps.ValueList,
                           <<item.Scope1, item.Scope2, item.Scope3>>,
                           IF item.BelongsToItem \in DOMAIN ps.IdMapping
                           THEN ps.IdMapping[item.BelongsToItem] ELSE -1,
                           ps.From, ps.LineIndex + 1, TRUE)))

\* _PostProcess, lines 1497-1521: the record is stored in the resolved table
\* unless its processor has set _ValueList to None
StoreResolved(ps, g, item) ==
    IF ps.Error # "" \/ ps.ValueList = <<>> THEN PG(ps, g)
    ELSE Stored(ps, g, item,
                PlatformInsert(ps.Table,
                    DscRow(ps.ItemType, ps.ValueList,
                           <<item.Scope1, item.Scope2, item.Scope3>>,
                           IF item.BelongsToItem \in DOMAIN ps.IdMapping
                           THEN ps.IdMapping[item.BelongsToItem] ELSE -1,
                           ps.From, ps.LineIndex + 1, NoFalse(ps.DirectiveEvalStack))))

Processed(r, item) == StoreResolved(r.ps, r.g, item)

\* _PostProcess, lines 1426-1467: the fields of the record are taken over
TakeItem(ps, item, m) ==
    [ps EXCEPT !.ItemType = item.Model, !.From = item.FromItem,
               !.ContentIndex = m.Index, !.Scope = m.Scope,
               !.LineIndex = item.StartLine - 1,
               !.ValueList = <<item.Value1, item.Value2, item.Value3>>,
               !.InSubsection = item.BelongsToItem > 0
                                /\ item.BelongsToItem \in DOMAIN ps.IdMapping]

\* _PostProcess, lines 1445-1459
ItemScope(ps, item) ==
    IF item.Model = "INCLUDE"
    THEN MergeInclude(ps.Content, ps.ContentIndex + 1, item,
                      << <<item.Scope1, item.Scope2, item.Scope3>> >>)
    ELSE [Index |-> ps.ContentIndex + 1,
          Scope |-> << <<item.Scope1, item.Scope2, item.Scope3>> >>]

\* _PostProcess, lines 1422-1521: one turn of the loop over _Content
PostItem(ps, g) ==
    Processed(Processer(TakeItem(ps, ps.Content[ps.ContentIndex + 1],
                                 ItemScope(ps, ps.Content[ps.ContentIndex + 1])), g),
              ps.Content[ps.ContentIndex + 1])

\* _PostProcess, lines 1523-1525
PostEnd(ps, g) ==
    PG([ps EXCEPT !.PostProcessed = TRUE, !.Content = <<>>],
       [g EXCEPT !.gPlatformDefines = Update(@, ps.FileLocalMacros)])

-----------------------------------------------------------------------------
(* SpecStore: one table of a chosen shape under Insert, DisableComponent,   *)
(* SetEndFlag and Query.                                                   *)

StoreModels == {"HEADER", "COMPONENT"}
StoreArchs == {COMMON, "IA32"}

\* The first scopes of the rows and the filters on it of the family "arch"
ScopeArchs == {COMMON, "IA32", "X64"}
ScopeArchFilters == {None, COMMON, "IA32", "X64"}

\* The second scopes of the rows and the filters on it of the family
\* "scope2".  A second scope is the tuple of its '.'-separated parts; a
\* filter of None (or '') is <<>>.
ScopeScope2s ==
    {<<COMMON>>, <<DEFAULT>>, <<"X">>, <<"X", "Y">>, <<COMMON, "Y">>,
     <<COMMON, "Y", "Z">>, <<COMMON, "Z">>}
ScopeScope2Filters == {<<>>, <<COMMON>>, <<"X">>, <<"X", "Y">>, <<"X", "Y", "Z">>}

\* The id counter a table starts from: 0 as constructed, or close to the wrap
\* point of ModuleTable.Insert, which stands for a table that has already
\* taken that many Inserts (its earlier rows, all of smaller id, are left out).
StoreStartIds == {0, MODEL_FILE_INF + ID_MAX - NearMax}

\* The rows Insert is called with (ID is filled in by Insert).
StoreRows(sh, t) ==
    LET owners == {-1} \cup {t.CurrentContent[i].ID : i \in DOMAIN t.CurrentContent}
        base == CASE cfg = "arch" ->
                     [Model : {"COMPONENT"}, Scope1 : ScopeArchs, Scope2 : {<<COMMON>>},
                      BelongsToItem : {-1}, Enabled : {PyBool(TRUE)}]
                  [] cfg = "scope2" ->
                     [Model : {"COMPONENT"}, Scope1 : {COMMON}, Scope2 : ScopeScope2s,
                      BelongsToItem : {-1}, Enabled : {PyBool(TRUE)}]
                  [] cfg = "flag" ->
                     [Model : StoreModels, Scope1 : {COMMON}, Scope2 : {<<COMMON>>},
                      BelongsToItem : {-1}, Enabled : {PyBool(TRUE), PyBool(FALSE)}]
                  [] cfg = "owner" ->
                     [Model : {"COMPONENT"}, Scope1 : {COMMON}, Scope2 : {<<COMMON>>},
                      BelongsToItem : owners, Enabled : {PyBool(TRUE), PyBool(FALSE)}]
                  [] OTHER ->
                     [Model : StoreModels, Scope1 : StoreArchs, Scope2 : {<<COMMON>>},
                      BelongsToItem : owners, Enabled : {PyBool(TRUE), PyBool(FALSE)}]
    IN  {IF sh = "DSC"
         THEN [ID |-> 0, Model |-> b.Model, Value1 |-> "v", Value2 |-> "", Value3 |-> "",
               Scope1 |-> b.Scope1, Scope2 |-> b.Scope2, Scope3 |-> COMMON,
               BelongsToItem |-> b.BelongsToItem, FromItem |-> -1,
               StartLine |-> -1, EndLine |-> -1, Enabled |-> b.Enabled]
         ELSE [ID |-> 0, Model |-> b.Model, Value1 |-> "v", Value2 |-> "", Value3 |-> "",
               Scope1 |-> b.Scope1, Scope2 |-> b.Scope2,
               BelongsToItem |-> b.BelongsToItem,
               StartLine |-> -1, EndLine |-> -1, Enabled |-> b.Enabled]
         : b \in base}

Rows(t) == SelectSeq(t.CurrentContent, LAMBDA item : item.ID >= 0)

StoreInit(c) ==
    /\ shape \in Shapes
    /\ \E id \in StoreStartIds : table = [NewTable EXCEPT !.ID = id]
    /\ qres = NoResult
    /\ qarg = NoResult
    /\ cfg = c
    /\ pc = "idle"
    /\ call = <<>>
    /\ parser = NewParser(NewTable, -1, -1)
    /\ glob = <<>>
    /\ file = <<>>
    /\ hist = <<>>

StoreInsert ==
    /\ Len(Rows(table)) < MaxRows
    /\ \E row \in StoreRows(shape, table) : table' = Insert(shape, table, row)
    /\ qres' = NoResult
    /\ qarg' = NoResult
    /\ call' = <<>>
    /\ UNCHANGED <<shape, cfg, pc, parser, glob, file, hist>>

StoreDisableComponent ==
    /\ shape = "DSC"
    /\ \E i \in DOMAIN Rows(table) :
            /\ table' = DisableComponent(table, Rows(table)[i].ID)
            /\ call' = <<Rows(table)[i].ID>>
    /\ qres' = NoResult
    /\ qarg' = NoResult
    /\ UNCHANGED <<shape, cfg, pc, parser, glob, file, hist>>

StoreSetEndFlag ==
    /\ Len(table.CurrentContent) <= MaxRows
    /\ table' = SetEndFlag(table, shape)
    /\ qres' = NoResult
    /\ qarg' = NoResult
    /\ call' = <<>>
    /\ UNCHANGED <<shape, cfg, pc, parser, glob, file, hist>>

\* The arguments Query is called with: the Model alone, Model and Arch, or
\* Model, Arch and the second scope; the other arguments keep their default None.
StoreQueryArgs ==
    CASE cfg = "arch" -> {"COMPONENT"} \X ScopeArchFilters \X {<<>>}
      [] cfg = "scope2" -> {"COMPONENT"} \X {None} \X ScopeScope2Filters
      [] cfg = "flag" -> (StoreModels \cup {"-1"}) \X {None} \X {<<>>}
      [] cfg = "owner" -> {"COMPONENT"} \X {None} \X {<<>>}
      [] OTHER -> (StoreModels \cup {"-1"}) \X {None, "IA32"} \X {<<>>}

\* Query of the table of shape sh with the arguments q
QueryOf(sh, t, q) ==
    CASE sh = "INF" -> ModuleQuery(t, q[1], q[2], q[3], <<>>)
      [] sh = "DEC" -> PackageQuery(t, q[1], q[2])
      [] sh = "DSC" -> PlatformQuery(t, q[1], q[2], q[3], <<>>, <<>>)

StoreQuery ==
    /\ \E q \in StoreQueryArgs :
          /\ qarg' = q
          /\ qres' = QueryOf(shape, table, q)
    /\ UNCHANGED <<shape, table, parserVars>>

StoreNext ==
    \/ StoreInsert
    \/ StoreDisableComponent
    \/ StoreSetEndFlag
    \/ StoreQuery

SpecStore == StoreInit("store") /\ [][StoreNext]_vars
SpecArch == StoreInit("arch") /\ [][StoreNext]_vars
SpecScope2 == StoreInit("scope2") /\ [][StoreNext]_vars
SpecFlag == StoreInit("flag") /\ [][StoreNext]_vars
SpecOwner == StoreInit("owner") /\ [][StoreNext]_vars

\* C2: Query never returns a row whose Enabled flag is false, in any of the
\* three table shapes, after any sequence of Insert and DisableComponent.
C2_QueryOmitsDisabled ==
    qarg # NoResult => \A i \in DOMAIN qres : qres[i].Enabled # PyBool(FALSE)

\* C4: the ids returned by successive Inserts on one table are strictly
\* increasing (so no two live rows share an id), for every length of the
\* insertion sequence, the wrap point of ModuleTable's counter included.
C4_IdsStrictlyIncreasing ==
    \A i, j \in DOMAIN Rows(table) : i < j => Rows(table)[i].ID < Rows(table)[j].ID

-----------------------------------------------------------------------------
(* The platform parser at work: dsc_parser[DataInfo] and DoPostProcess on a *)
(* top-level DscParser, the file it reads chosen line by line.              *)

MaxLines == 5       \* lines of the top-level platform file
MaxIncLines == 4    \* the same for the files with '!include' lines
MaxMacroLines == 4  \* the same for the files with DEFINE lines
MaxLitLines == 5    \* the same for the files with literal conditions
MaxStackLines == 5  \* the same for the files with conditionals and '!include'
MaxChainLines == 6  \* the same for the files with one chain and its records
MaxVisLines == 6    \* the same for the files with a condition on their PCD
MaxRuns == 2        \* _PostProcess runs, each started by a query that names an arch

\* The lines a platform file of each family is made of
Alphabet(c) ==
    CASE c = "cond" ->
            {SecLine("PCDSFEATUREFLAG", ScopeCommon), Line("ITEM", "P", "TRUE"),
             Line("IF", "gTok.P", ""), Line("IFDEF", "gTok.P", ""),
             Line("IFNDEF", "gTok.P", ""),
             Line("ELSE", "", ""), Line("ENDIF", "", ""), Line("ERROR", "stop", "")}
      [] c = "elif" ->
            {SecLine("PCDSFEATUREFLAG", ScopeCommon), Line("ITEM", "P", "TRUE"),
             Line("IFDEF", "gTok.P", ""), Line("IFNDEF", "gTok.P", ""),
             Line("ELSEIF", "gTok.P", ""), Line("ELSE", "", ""), Line("ENDIF", "", "")}
      [] c = "macro" ->
            {SecLine("DEFINES", ScopeCommon), SecLine("LIBRARYCLASSES", ScopeCommon),
             SecLine("LIBRARYCLASSES", ScopeIA32), SecLine("LIBRARYCLASSES", ScopeX64),
             Line("DEFINE", "M", "a"), Line("DEFINE", "M", "b"),
             Line("ITEM", "lib", "$(M)")}
      [] c = "section" ->
            {SecLine("LIBRARYCLASSES", ScopeCommon), SecLine("LIBRARYCLASSES", ScopeIA32),
             SecLine("LIBRARYCLASSES", ScopeX64), SecLine("LIBRARYCLASSES", ScopeIA32Dxe),
             SecLine("LIBRARYCLASSES", ScopeIA32Store),
             Line("DEFINE", "M", "a"), Line("DEFINE", "M", "b")}
      [] c = "self" ->
            {SecLine("LIBRARYCLASSES", ScopeCommon), Line("ITEM", "x", "v"),
             Line("INCLUDE", Self, ""), Line("IFNDEF", "M", ""), Line("ENDIF", "", "")}
      [] c = "file" ->
            {SecLine("LIBRARYCLASSES", ScopeCommon), Line("ITEM", "x", "v")}
      [] c = "define" ->
            {SecLine("DEFINES", ScopeCommon), SecLine("LIBRARYCLASSES", ScopeIA32),
             Line("DEFINE", "M", "a"), Line("EDK_GLOBAL", "M", "b"),
             Line("IFDEF", "M", ""), Line("ENDIF", "", "")}
      [] c = "lit" ->
            {SecLine("PCDSFEATUREFLAG", ScopeCommon), Line("ITEM", "P", "TRUE"),
             Line("IF", "0", ""), Line("IF", "1", ""),
             Line("ELSEIF", "0", ""), Line("ELSEIF", "1", ""),
             Line("ELSE", "", ""), Line("ENDIF", "", "")}
      [] c = "stack" ->
            {SecLine("LIBRARYCLASSES", ScopeCommon), Line("IFDEF", "M", ""),
             Line("ELSEIF", "1", ""), Line("ELSE", "", ""), Line("ENDIF", "", ""),
             Line("INCLUDE", "Cond", ""), Line("INCLUDE", "Else", "")}
      [] c = "chain" ->
            {SecLine("PCDSFEATUREFLAG", ScopeCommon), Line("ITEM", "P", "TRUE"),
             Line("IF", "0", ""), Line("IF", "1", ""), Line("ELSEIF", "1", ""),
             Line("ELSE", "", ""), Line("ENDIF", "", "")}
      [] c = "arch2" ->
            {SecLine("COMPONENTS", ScopeTwo), Line("OPEN", "Foo", ""),
             Line("CLOSE", "}", ""), Line("SUBSEC", "LIBRARYCLASSES", ""),
             Line("ITEM", "lib", "inst"), Line("ERROR", "stop", "")}
      [] c = "incoff" ->
            {SecLine("LIBRARYCLASSES", ScopeCommon), Line("IF", "0", ""), Line("IF", "1", ""),
             Line("ELSE", "", ""), Line("ENDIF", "", ""),
             Line("INCLUDE", "Sub", ""), Line("INCLUDE", "Empty", "")}
      [] c = "vis" ->
            {SecLine("PCDSFEATUREFLAG", ScopeCommon), Line("ITEM", "P", "TRUE"),
             Line("IF", "0", ""), Line("IF", "gTok.P", ""),
             Line("ELSE", "", ""), Line("ENDIF", "", "")}
      [] c = "header" ->
            {SecLine("LIBRARYCLASSES", ScopeCommon), SecLine("LIBRARYCLASSES", ScopeTwo),
             SecLine("LIBRARYCLASSES", ScopeMixedArch),
             SecLine("LIBRARYCLASSES", ScopeMixedType), Line("ITEM", "x", "v")}
      [] c = "inc" ->
            {SecLine("LIBRARYCLASSES", ScopeCommon), SecLine("LIBRARYCLASSES", ScopeTwo),
             Line("ITEM", "x", "v"), Line("INCLUDE", "Sub", ""),
             Line("INCLUDE", "Tail", ""), Line("INCLUDE", "Empty", "")}
      [] c = "comp" ->
            {SecLine("COMPONENTS", ScopeCommon), Line("OPEN", "Foo", ""),
             Line("CLOSE", "}", ""), Line("SUBSEC", "LIBRARYCLASSES", ""),
             Line("ITEM", "lib", "inst"), Line("IFDEF", "M", ""), Line("ENDIF", "", "")}

\* The model asked for by the queries of each family
QueryModel(c) ==
    CASE c \in {"cond", "elif", "lit", "chain", "vis"} -> "PCD_FEATURE_FLAG"
      [] c \in {"inc", "macro", "section", "self", "file", "header", "define", "stack", "incoff"} -> "LIBRARY_CLASS"
      [] c \in {"comp", "arch2"} -> "COMPONENT"

\* DataInfo of dsc_parser[Model], dsc_parser[Model, None], dsc_parser[Model, Arch]
Queries(c) == {<<QueryModel(c)>>, <<QueryModel(c), None>>, <<QueryModel(c), "IA32">>}

\* _FilterRecordList
FilterRecordList(RecordList, FilterArch) ==
    SelectSeq(RecordList, LAMBDA Record : Record.Scope1 = COMMON \/ Record.Scope1 = FilterArch)

\* table.Query(*DataInfo)
QueryDataInfo(t, DataInfo) ==
    PlatformQuery(t, DataInfo[1], IF Len(DataInfo) > 1 THEN DataInfo[2] ELSE None,
                  <<>>, <<>>, <<>>)

\* A __getitem__ that answers every query from the raw table
UseRawDataAlways(DataInfo) == TRUE

\* __getitem__, line 261: the query is answered from the raw table
UseRawData(DataInfo) == IF Len(DataInfo) = 1 THEN TRUE ELSE DataInfo[2] = None

ParserInit(c) ==
    /\ cfg = c
    /\ pc = "idle"
    /\ call = <<>>
    /\ glob \in {[NewGlobals EXCEPT !.gCommandLineDefines = d] : d \in gCommandLineDefines(c)}
    /\ parser = NewParser([NewTable EXCEPT !.ID = GetTableID(NewGlobals)], -1, -1)
    /\ file = <<>>
    /\ hist = <<>>
    /\ qres = NoResult
    /\ qarg = NoResult
    /\ shape = "DSC"
    /\ table = NewTable

\* __getitem__, lines 253-258, and StartParse
GetItem ==
    /\ pc = "idle"
    /\ \E DataInfo \in Queries(cfg) : call' = DataInfo
    /\ IF parser.Finished
       THEN pc' = "dispatch" /\ UNCHANGED parser
       ELSE IF IsIntegrity(parser.RawTable)
       THEN pc' = "dispatch" /\ parser' = [parser EXCEPT !.Finished = TRUE]
       ELSE /\ pc' = "start"
            /\ parser' = [parser EXCEPT !.TableIsRaw = TRUE, !.Table = NewTable,
                                        !.PostProcessed = FALSE]
    /\ qres' = NoResult
    /\ qarg' = NoResult
    /\ UNCHANGED <<cfg, glob, file, hist, storeVars>>

\* Start: one turn of the loop over the lines of the file
StartLine ==
    /\ pc = "start"
    /\ Len(file) < (CASE cfg = "inc" -> MaxIncLines
                       [] cfg = "macro" -> MaxMacroLines
                       [] cfg = "lit" -> MaxLitLines
                       [] cfg = "chain" -> MaxChainLines
                       [] cfg = "vis" -> MaxVisLines
                       [] cfg = "stack" -> MaxStackLines
                       [] OTHER -> MaxLines)
    /\ \E line \in Alphabet(cfg) :
          /\ parser' = ParseLine(parser, Len(file), line)
          /\ file' = Append(file, line)
    /\ pc' = IF parser'.Error # "" THEN "error" ELSE "start"
    /\ UNCHANGED <<cfg, call, glob, hist, qres, qarg, storeVars>>

\* Start: the end of the file
StartEnd ==
    /\ pc = "start"
    /\ parser' = EndOfFile(parser)
    /\ pc' = IF parser'.Error # "" THEN "error" ELSE "dispatch"
    /\ UNCHANGED <<cfg, call, glob, file, hist, qres, qarg, storeVars>>

\* __getitem__, lines 261-262
GetItemRaw ==
    /\ pc = "dispatch"
    /\ UseRawData(call)
    /\ qres' = FilterRecordList(QueryDataInfo(parser.RawTable, call), parser.Arch)
    /\ qarg' = call
    /\ pc' = "idle"
    /\ UNCHANGED <<cfg, call, parser, glob, file, hist, storeVars>>

\* __getitem__, lines 265-266, entering _PostProcess
PostStart ==
    /\ pc = "dispatch"
    /\ ~UseRawData(call)
    /\ ~parser.PostProcessed
    /\ parser' = PostBegin(parser, glob).ps
    /\ glob' = PostBegin(parser, glob).g
    /\ pc' = "post"
    /\ UNCHANGED <<cfg, call, file, hist, qres, qarg, storeVars>>

\* _PostProcess: one turn of the loop over _Content
PostStep ==
    /\ pc = "post"
    /\ parser.ContentIndex < Len(parser.Content)
    /\ \E r \in {PostItem(parser, glob)} : parser' = r.ps /\ glob' = r.g
    /\ pc' = IF parser'.Error # "" THEN "error" ELSE "post"
    /\ UNCHANGED <<cfg, call, file, hist, qres, qarg, storeVars>>

\* _PostProcess: the end of the loop
PostDone ==
    /\ pc = "post"
    /\ parser.ContentIndex >= Len(parser.Content)
    /\ parser' = PostEnd(parser, glob).ps
    /\ glob' = PostEnd(parser, glob).g
    /\ hist' = Append(hist, parser.Table.CurrentContent)
    /\ pc' = "dispatch"
    /\ UNCHANGED <<cfg, call, file, qres, qarg, storeVars>>

\* __getitem__, line 268
GetItemResolved ==
    /\ pc = "dispatch"
    /\ ~UseRawData(call)
    /\ parser.PostProcessed
    /\ qres' = FilterRecordList(
                  QueryDataInfo(IF parser.TableIsRaw THEN parser.RawTable ELSE parser.Table,
                                call),
                  call[2])
    /\ qarg' = call
    /\ pc' = "idle"
    /\ UNCHANGED <<cfg, call, parser, glob, file, hist, storeVars>>

\* DoPostProcess
DoPostProcess ==
    /\ pc = "idle"
    /\ parser.PostProcessed
    /\ Len(hist) < MaxRuns
    /\ parser' = [parser EXCEPT !.PostProcessed = FALSE]
    /\ qres' = NoResult
    /\ qarg' = NoResult
    /\ UNCHANGED <<cfg, pc, call, glob, file, hist, storeVars>>

ParserNext ==
    \/ GetItem
    \/ StartLine
    \/ StartEnd
    \/ GetItemRaw
    \/ PostStart
    \/ PostStep
    \/ PostDone
    \/ GetItemResolved
    \/ DoPostProcess

SpecCond == ParserInit("cond") /\ [][ParserNext]_vars

SpecInc == ParserInit("inc") /\ [][ParserNext]_vars

SpecComp == ParserInit("comp") /\ [][ParserNext]_vars

SpecElif == ParserInit("elif") /\ [][ParserNext]_vars

SpecMacro == ParserInit("macro") /\ [][ParserNext]_vars
SpecSection == ParserInit("section") /\ [][ParserNext]_vars
SpecSelf == ParserInit("self") /\ [][ParserNext]_vars
SpecHeader == ParserInit("header") /\ [][ParserNext]_vars
SpecLit == ParserInit("lit") /\ [][ParserNext]_vars
SpecVis == ParserInit("vis") /\ [][ParserNext]_vars
SpecIncOff == ParserInit("incoff") /\ [][ParserNext]_vars
SpecArch2 == ParserInit("arch2") /\ [][ParserNext]_vars
SpecChain == ParserInit("chain") /\ [][ParserNext]_vars
SpecStack == ParserInit("stack") /\ [][ParserNext]_vars
SpecDefine == ParserInit("define") /\ [][ParserNext]_vars

-----------------------------------------------------------------------------
(* Properties of the platform parser *)

\* The rows of the resolved table
Resolved == parser.Table.CurrentContent

\* C1: after a successful _PostProcess run the resolved table holds no row
\* whose model is a conditional directive (IF, IFDEF, IFNDEF, ELSEIF, ELSE,
\* ENDIF, ERROR) or INCLUDE.
C1_NoDirectiveInResolved ==
    parser.PostProcessed => \A i \in DOMAIN Resolved : Resolved[i].Model \notin Directives

\* C5: every row written to the resolved table during _PostProcess is
\* enabled exactly when the directive evaluation stack, as it stands after
\* the directives that precede the row's record, holds no False.
C5_EnabledMatchesStack ==
    [][(pc = "post" /\ Len(parser'.Table.CurrentContent) = Len(Resolved) + 1)
        => (Truthy(Last(parser'.Table.CurrentContent).Enabled)
              <=> NoFalse(parser.DirectiveEvalStack))]_vars

\* C9: a second _PostProcess run on the same parser and raw table leaves the
\* same sequence of resolved rows as the first.
C9_PostProcessIdempotent ==
    Len(hist) >= 2 => hist[2] = hist[1]

\* The rows a query has returned all lie in the table t
ReturnedFrom(t) == \A i \in DOMAIN qres : qres[i] \in Range(t.CurrentContent)

\* The last [] call has returned rows of the resolved table of a finished
\* _PostProcess run
ReturnedResolved == parser.PostProcessed /\ ~parser.TableIsRaw /\ ReturnedFrom(parser.Table)

\* C3 as stated: every [] query, with the model alone or with an arch,
\* returns rows of the resolved table, post-processing run first.
C3_QueryReturnsResolved ==
    qarg # NoResult => ReturnedResolved

\* C3 as the code has it: a [] query that names an arch other than None
\* returns rows of the resolved table, post-processing run first; a query
\* with the model alone, or with None as arch, returns rows of the raw table.
C3_ArchQueryReturnsResolved ==
    qarg # NoResult =>
        IF Len(qarg) > 1 /\ qarg[Len(qarg)] # None
        THEN ReturnedResolved
        ELSE ReturnedFrom(parser.RawTable)

\* A query with an arch has returned a row after post-processing
C3_Witness ==
    /\ qarg # NoResult
    /\ Len(qarg) > 1
    /\ qarg[Len(qarg)] = "IA32"
    /\ qres # <<>>
    /\ parser.PostProcessed

\* The tables of raw records: the top-level one and those of included files
RawTables == {parser.RawTable} \cup Range(glob.ObjectCache)

Ids(t) == {Rows(t)[i].ID : i \in DOMAIN Rows(t)}

\* C6: after an enabled '!include' is post-processed, every resolved row that
\* comes from an included file has as FromItem the id of an INCLUDE row of a
\* raw table, of the top-level file or of an included file,
\* and no enabled INCLUDE row is in the resolved table, whatever the scopes
\* of the section and also when the included file has no records.
C6_IncludeIsolation ==
    parser.PostProcessed =>
        /\ \A i \in DOMAIN Resolved :
              Resolved[i].FromItem # -1 =>
                 \E t \in RawTables : \E rec \in Range(Rows(t)) :
                    rec.ID = Resolved[i].FromItem /\ rec.Model = "INCLUDE"
        /\ \A i \in DOMAIN Resolved :
              ~(Resolved[i].Model = "INCLUDE" /\ Truthy(Resolved[i].Enabled))

\* C7: the raw ids of the top-level file and of every included file are
\* pairwise disjoint, the same path included from two directives included.
C7_RawIdRangesDisjoint ==
    \A k1, k2 \in DOMAIN glob.ObjectCache :
        /\ Ids(glob.ObjectCache[k1]) \cap Ids(parser.RawTable) = {}
        /\ k1 # k2 => Ids(glob.ObjectCache[k1]) \cap Ids(glob.ObjectCache[k2]) = {}

\* The values of the item lines of a file in source order, every '!include'
\* replaced by those of the file it names; sec tells whether a section
\* header stands before the lines
RECURSIVE Flat(_, _, _)
Flat(lines, i, sec) ==
    IF i > Len(lines) THEN <<>>
    ELSE CASE lines[i].k = "SEC" -> Flat(lines, i + 1, TRUE)
           [] lines[i].k = "ITEM" ->
                 (IF sec THEN <<lines[i].a>> ELSE <<>>) \o Flat(lines, i + 1, sec)
           [] lines[i].k = "INCLUDE" ->
                 Flat(FileContent(lines[i].a), 1, sec) \o Flat(lines, i + 1, sec)
           [] OTHER -> Flat(lines, i + 1, sec)

\* a is b with some elements left out
RECURSIVE IsSubseq(_, _)
IsSubseq(a, b) ==
    IF a = <<>> THEN TRUE
    ELSE IF b = <<>> THEN FALSE
    ELSE IF Head(a) = Head(b) THEN IsSubseq(Tail(a), Tail(b))
    ELSE IsSubseq(a, Tail(b))

\* Two rows made from the same line of the same file, one for each scope
SameLine(r1, r2) ==
    r1.Value1 = r2.Value1 /\ r1.StartLine = r2.StartLine /\ r1.FromItem = r2.FromItem

\* The rows with those that repeat the line of the row before them left out
RECURSIVE OnePerLine(_)
OnePerLine(rows) ==
    IF Len(rows) <= 1 THEN rows
    ELSE IF SameLine(rows[1], rows[2]) THEN OnePerLine(Tail(rows))
    ELSE <<Head(rows)>> \o OnePerLine(Tail(rows))

ValuesOf(rows) == [i \in DOMAIN rows |-> rows[i].Value1]

\* The values of the library class rows of the resolved table, in table
\* order, one for each line
ResolvedValues ==
    ValuesOf(OnePerLine(SelectSeq(Resolved, LAMBDA r : r.Model = "LIBRARY_CLASS")))

\* C8: in the resolved table the records of an included file stand, in
\* their own order, where the '!include' stood: after the records of the
\* lines before the directive and before those of the lines after it; and
\* every record of the included file is there.
C8_IncludeKeepsOrder ==
    parser.PostProcessed =>
        /\ IsSubseq(ResolvedValues, Flat(file, 1, FALSE))
        /\ \A k \in DOMAIN glob.ObjectCache :
              \A rec \in Range(Rows(glob.ObjectCache[k])) :
                 rec.Model = "INCLUDE" \/ \E i \in DOMAIN Resolved :
                    /\ Resolved[i].FromItem = k[2]
                    /\ Resolved[i].StartLine = rec.StartLine
                    /\ Resolved[i].Value1 = rec.Value1
                    /\ Resolved[i].Scope1 = rec.Scope1

\* A row of the including file, then rows of the included file, then a row
\* of the including file again
C8_Witness ==
    /\ parser.PostProcessed
    /\ \E i, j, k \in DOMAIN Resolved :
          /\ i < j /\ j < k
          /\ Resolved[i].Model = "LIBRARY_CLASS" /\ Resolved[i].FromItem = -1
          /\ Resolved[j].Model = "LIBRARY_CLASS" /\ Resolved[j].FromItem # -1
          /\ Resolved[k].Model = "LIBRARY_CLASS" /\ Resolved[k].FromItem = -1

\* C10: in the resolved table a sub-section record that belongs to item k is
\* disabled whenever the record with id k is disabled, wherever '!if' and
\* '!endif' stand relative to the '{' and '}' of the component.
C10_EnableConsistency ==
    parser.PostProcessed =>
        \A i, j \in DOMAIN Resolved :
            (/\ Resolved[i].Model \notin Directives
             /\ Resolved[i].BelongsToItem = Resolved[j].ID
             /\ ~Truthy(Resolved[j].Enabled))
            => ~Truthy(Resolved[i].Enabled)

\* The scope triples of the section header that is active at line i of the
\* top-level file, <<>> when no header stands before the line
ActiveScope(i) ==
    IF \E j \in 1..(i - 1) : file[j].k = "SEC"
    THEN file[CHOOSE j \in 1..(i - 1) :
                 file[j].k = "SEC" /\ \A h \in (j + 1)..(i - 1) : file[h].k # "SEC"].s
    ELSE <<>>

\* The scope triples of the raw records made from line i, in table order
RawScopesAt(i) ==
    [k \in DOMAIN SelectSeq(Rows(parser.RawTable), LAMBDA r : r.StartLine = i) |->
        <<SelectSeq(Rows(parser.RawTable), LAMBDA r : r.StartLine = i)[k].Scope1,
          SelectSeq(Rows(parser.RawTable), LAMBDA r : r.StartLine = i)[k].Scope2,
          SelectSeq(Rows(parser.RawTable), LAMBDA r : r.StartLine = i)[k].Scope3>>]

\* C11: for a section header that declares n scope triples the raw parser
\* stores exactly n records for every item line of the section, one for each
\* triple and carrying it; '!include' and '!error' lines are item lines too.
C11_OneRecordPerScope ==
    \A i \in DOMAIN file :
        (file[i].k \in {"ITEM", "INCLUDE", "ERROR"} /\ ActiveScope(i) # <<>>)
        => RawScopesAt(i) = ActiveScope(i)

\* The number of conditionals left open by the lines from i on, d being the
\* number open before them; -1 once an '!endif' has found none open
RECURSIVE OpenCount(_, _, _)
OpenCount(lines, i, d) ==
    IF d < 0 THEN -1
    ELSE IF i > Len(lines) THEN d
    ELSE OpenCount(lines, i + 1,
                   IF lines[i].k \in IfKinds THEN d + 1
                   ELSE IF lines[i].k = "ENDIF" THEN d - 1 ELSE d)

\* The step is a turn of Start on a line of kind k
StartOn(k) == pc = "start" /\ Len(file') = Len(file) + 1 /\ Last(file').k = k

RawFails == pc' = "error" /\ parser'.Error = "FORMAT_INVALID" /\ ~parser'.Finished

\* C12: the raw parse succeeds only if the conditional directives are
\* balanced: an '!endif' with no '!if', '!ifdef' or '!ifndef' on the
\* directive stack raises FORMAT_INVALID, every other '!endif' pops the stack
\* down to and including the nearest of them, and a directive stack that is
\* not empty at the end of the file raises FORMAT_INVALID.
C12_BalancedDirectives ==
    [][/\ StartOn("ENDIF") =>
            IF \E k \in DOMAIN parser.DirectiveStack : parser.DirectiveStack[k] \in IfKinds
            THEN /\ parser'.Error = ""
                 /\ \E k \in DOMAIN parser.DirectiveStack :
                       /\ parser.DirectiveStack[k] \in IfKinds
                       /\ \A j \in (k + 1)..Len(parser.DirectiveStack) :
                             parser.DirectiveStack[j] \notin IfKinds
                       /\ parser'.DirectiveStack = SubSeq(parser.DirectiveStack, 1, k - 1)
            ELSE RawFails
       /\ (pc = "start" /\ file' = file /\ parser.DirectiveStack # <<>>) => RawFails
       /\ (parser'.Finished /\ parser'.Error = "") => OpenCount(file', 1, 0) = 0
      ]_vars

\* A raw parse has succeeded on a file with an '!else' between an opening
\* directive and its '!endif'
C12_Witness ==
    /\ parser.Finished /\ parser.Error = ""
    /\ \E i, j, k \in DOMAIN file :
          /\ i < j /\ j < k
          /\ file[i].k \in IfKinds /\ file[j].k = "ELSE" /\ file[k].k = "ENDIF"

\* The step is a turn of the _PostProcess loop on a record of model k
PostOn(k) ==
    /\ pc = "post"
    /\ parser.ContentIndex < Len(parser.Content)
    /\ parser.Content[parser.ContentIndex + 1].Model = k

\* The value of the expression of the record _PostProcess is about to take
ExpressionValue ==
    ValueExpression(parser.Content[parser.ContentIndex + 1].Value2,
                    Macros([parser EXCEPT !.ItemType = "ELSEIF"], glob)) = "True"

M == <<"M">>

\* The value the library class row of an item line 'lib|$(M)' gets under the
\* layers of ps and g when a later layer of the list overrides an earlier one
Layered(layers) ==
    IF \E i \in DOMAIN layers : M \in DOMAIN layers[i]
    THEN layers[CHOOSE i \in DOMAIN layers :
                    M \in DOMAIN layers[i]
                    /\ \A j \in (i + 1)..Len(layers) : M \notin DOMAIN layers[j]][M]
    ELSE "$(M)"

\* The row stored by the step for a library class record that refers to M
\* holds the value v
StoresValue(v) ==
    (PostOn("LIBRARY_CLASS") /\ parser.Content[parser.ContentIndex + 1].Value2 = "$(M)")
    => /\ Len(parser'.Table.CurrentContent) = Len(parser.Table.CurrentContent) + 1
       /\ Last(parser'.Table.CurrentContent).Value2 = v

ClassOf(e) ==
    CASE e.key[1] # parser.SectionType -> "None"
      [] \A i \in DOMAIN parser.Scope : InScope(parser.Scope[i], e.key[2]) -> "SpeSpe"
      [] InScope(<<COMMON, <<COMMON>>, COMMON>>, e.key[2]) -> "ComCom"
      [] \A i \in DOMAIN parser.Scope :
            \/ InScope(<<parser.Scope[i][1], <<COMMON>>, COMMON>>, e.key[2])
            \/ InScope(<<COMMON, parser.Scope[i][2], COMMON>>, e.key[2]) -> "ComSpe"
      [] OTHER -> "None"

\* The entries of the section macro dictionary that define M and are of the class
EntriesOf(class) ==
    {i \in DOMAIN parser.SectionsMacroDict :
        /\ M \in DOMAIN parser.SectionsMacroDict[i].macros
        /\ ClassOf(parser.SectionsMacroDict[i]) = class}

\* The value of M in the entry of the class that was made last
LastValueOf(class) ==
    parser.SectionsMacroDict[CHOOSE i \in EntriesOf(class) :
                                 \A j \in EntriesOf(class) : j <= i].macros[M]

\* The entry e is defined under a scope whose arch is COMMON or the arch of
\* the triple t
CoversArch(e, t) == \E i \in DOMAIN e.key[2] : e.key[2][i][1] \in {COMMON, t[1]}

\* _GetApplicableSectionMacro gives M the value v, or leaves M out when v is None
GivesM(v) ==
    \E r \in {ApplicableSectionMacro(parser)} :
        IF v = None THEN M \notin DOMAIN r ELSE M \in DOMAIN r /\ r[M] = v

C16_Scope1Filter ==
    (cfg = "arch" /\ qarg # NoResult /\ qarg[2] # None) =>
        \A i \in DOMAIN qres : qres[i].Scope1 \in {COMMON, qarg[2]}

\* C16 as the code has it: for every scope1 filter other than "COMMON" a
\* returned record has the scope1 "COMMON" or the scope1 of the filter; the
\* filter "COMMON" is no filter: Query returns what it returns with None.
C16_SpecificScope1Filter ==
    (cfg = "arch" /\ qarg # NoResult /\ qarg[2] # None) =>
        IF qarg[2] = COMMON
        THEN qres = QueryOf(shape, table, <<qarg[1], None, qarg[3]>>)
        ELSE \A i \in DOMAIN qres : qres[i].Scope1 \in {COMMON, qarg[2]}

\* A query for IA32 has left out an X64 record of the table and returned another
C16_Witness ==
    /\ cfg = "arch" /\ qarg # NoResult /\ qarg[2] = "IA32"
    /\ qres # <<>>
    /\ \E i \in DOMAIN table.CurrentContent :
          /\ table.CurrentContent[i].Scope1 = "X64"
          /\ Truthy(table.CurrentContent[i].Enabled)

\* The second scopes a PlatformTable.Query with the filter F lets through
Scope2Of(F) ==
    {<<COMMON>>, <<DEFAULT>>, F}
        \cup (IF Len(F) > 1 THEN {<<COMMON>> \o SubSeq(F, 2, Len(F))} ELSE {})

\* C17 as stated: PlatformTable.Query with a scope2 filter F returns a
\* record only if its scope2 is "COMMON", "DEFAULT" or F or, F being X.Y,
\* "COMMON.Y".
C17_Scope2Filter ==
    (cfg = "scope2" /\ shape = "DSC" /\ qarg # NoResult /\ qarg[3] # <<>>) =>
        \A i \in DOMAIN qres : qres[i].Scope2 \in Scope2Of(qarg[3])

\* C17 as the code has it: the same for every filter F other than "COMMON";
\* the filter "COMMON" is no filter: Query returns what it returns with None.
C17_SpecificScope2Filter ==
    (cfg = "scope2" /\ shape = "DSC" /\ qarg # NoResult /\ qarg[3] # <<>>) =>
        IF qarg[3] = <<COMMON>>
        THEN qres = QueryOf(shape, table, <<qarg[1], qarg[2], <<>> >>)
        ELSE \A i \in DOMAIN qres : qres[i].Scope2 \in Scope2Of(qarg[3])

\* A query with the filter X.Y has returned a COMMON.Y record and left out
\* an X record of the table
C17_Witness ==
    /\ cfg = "scope2" /\ shape = "DSC" /\ qarg # NoResult /\ qarg[3] = <<"X", "Y">>
    /\ \E i \in DOMAIN qres : qres[i].Scope2 = <<COMMON, "Y">>
    /\ \E i \in DOMAIN table.CurrentContent :
          /\ table.CurrentContent[i].Scope2 = <<"X">>
          /\ Truthy(table.CurrentContent[i].Enabled)

\* C18: IsIntegrity is true exactly when the last element of the table is
\* the end flag, after every sequence of Insert and SetEndFlag; GetAll and
\* Query, for every model, never return the end flag, in the three shapes.
C18_EndFlag ==
    /\ IsIntegrity(table) <=>
          (table.CurrentContent # <<>> /\ Last(table.CurrentContent) = Dummy(shape))
    /\ \A i \in DOMAIN GetAll(table) : GetAll(table)[i] # Dummy(shape)
    /\ qarg # NoResult => \A i \in DOMAIN qres : qres[i] # Dummy(shape)

\* The table ends with the end flag after a row, and a query for the model
\* of the end flag has returned nothing
C18_Witness ==
    /\ IsIntegrity(table)
    /\ Rows(table) # <<>>
    /\ qarg # NoResult /\ qarg[1] = "-1" /\ qres = <<>>

\* C19: DisableComponent(id) sets Enabled to False on the record with that
\* id and on every record whose BelongsToItem is id, and leaves every other
\* record, every other field, the order of the records and the id counter
\* as they are.
C19_DisableComponent ==
    [][(table' # table /\ Len(table'.CurrentContent) = Len(table.CurrentContent)) =>
          /\ table'.ID = table.ID
          /\ \A i \in DOMAIN table.CurrentContent :
                LET r == table.CurrentContent[i]
                IN  table'.CurrentContent[i] =
                      IF r.ID = call'[1] \/ r.BelongsToItem = call'[1]
                      THEN [r EXCEPT !.Enabled = PyBool(FALSE)]
                      ELSE r]_vars

\* DisableComponent has been called for a component that a second record
\* belongs to, and both are disabled
C19_Witness ==
    /\ shape = "DSC"
    /\ call # <<>>
    /\ \E i, j \in DOMAIN table.CurrentContent :
          /\ table.CurrentContent[i].ID = call[1]
          /\ table.CurrentContent[j].BelongsToItem = call[1]
          /\ table.CurrentContent[i].Enabled = PyBool(FALSE)
          /\ table.CurrentContent[j].Enabled = PyBool(FALSE)

\* The step is a turn of the _PostProcess loop on an enabled '!include' of
\* the file of the running parser
SelfIncludeStep ==
    /\ PostOn("INCLUDE")
    /\ parser.Content[parser.ContentIndex + 1].Value2 = Self
    /\ NoFalse(parser.DirectiveEvalStack)

\* C20: a parser constructed for the path of a file that is being
\* post-processed is the running parser, still in its in-progress state:
\* its raw table, its content, its directive stacks and its id mapping
\* are those it had before the '!include' of its own file.
C20_SelfIncludeKeepsState ==
    [][SelfIncludeStep =>
          /\ parser'.RawTable = parser.RawTable
          /\ parser'.Content # <<>>
          /\ parser'.DirectiveStack = parser.DirectiveStack
          /\ parser'.DirectiveEvalStack = parser.DirectiveEvalStack
          /\ \A id \in DOMAIN parser.IdMapping :
                id \in DOMAIN parser'.IdMapping
                /\ parser'.IdMapping[id] = parser.IdMapping[id]]_vars

-----------------------------------------------------------------------------
(* Pure functions.  The argument is drawn by Init into qarg, the one action *)
(* of the specification applies the function and leaves the result in qres, *)
(* with pc = "done".                                                        *)

FunInit(c, inputs) ==
    /\ cfg = c
    /\ pc = "idle"
    /\ qarg \in inputs
    /\ qres = NoResult
    /\ call = <<>>
    /\ glob = <<>>
    /\ parser = NewParser(NewTable, -1, -1)
    /\ file = <<>>
    /\ hist = <<>>
    /\ shape = "DSC"
    /\ table = NewTable

\* The sequences over S of length 0..n
SeqsUpTo(S, n) == UNION {[1..k -> S] : k \in 0..n}

-----------------------------------------------------------------------------
(* MetaFileParser2.py: ProcessMultipleLineCODEValue.  A line is the         *)
(* sequence of its parts, "" being <<>>; joining lines is \o.  The parts:   *)
(* "p", "q" plain text; "o" text that holds '{CODE(' ; "c" text that holds  *)
(* ')}'; "w" a '{CODE(...)}' value that CODEPattern matches; "x" a          *)
(* '{CODE(...)}' value that CODEPattern does not match.                     *)

MaxCodeLines == 4   \* lines of a Content given to ProcessMultipleLineCODEValue

CodeParts == {"p", "q", "o", "c", "w", "x"}

\* "{CODE(" in Line
HasCodeOpen(aLine) == \E i \in DOMAIN aLine : aLine[i] \in {"o", "w", "x"}

\* ")}" in Line
HasCodeClose(aLine) == \E i \in DOMAIN aLine : aLine[i] \in {"c", "w", "x"}

\* CODEPattern.findall(Line)
CODEPattern(aLine) == \E i \in DOMAIN aLine : aLine[i] = "w"

\* range(continuelinecount) appends of ""
RECURSIVE Padding(_)
Padding(n) == IF n = 0 THEN <<>> ELSE <<<<>>>> \o Padding(n - 1)

\* ProcessMultipleLineCODEValue, lines 515-538: the loop from Index on
RECURSIVE CodeLoop(_, _, _, _, _, _)
CodeLoop(Content, Index, CODEBegin, CODELine, continuelinecount, newContent) ==
    IF Index > Len(Content) THEN newContent
    ELSE LET aLine == Content[Index]
         IN  IF CODEBegin
             THEN IF HasCodeClose(aLine)
                  THEN CodeLoop(Content, Index + 1, FALSE, <<>>, 0,
                                Append(newContent, CODELine \o aLine)
                                    \o Padding(continuelinecount + 1))
                  ELSE CodeLoop(Content, Index + 1, TRUE, CODELine \o aLine,
                                continuelinecount + 1, newContent)
             ELSE IF aLine = <<>> \/ ~HasCodeOpen(aLine) \/ CODEPattern(aLine)
                  THEN CodeLoop(Content, Index + 1, FALSE, CODELine, continuelinecount,
                                Append(newContent, aLine))
                  ELSE CodeLoop(Content, Index + 1, TRUE, aLine, continuelinecount,
                                newContent)

\* ProcessMultipleLineCODEValue
ProcessMultipleLineCODEValue(Content) == CodeLoop(Content, 1, FALSE, <<>>, 0, <<>>)

\* The Content lists of the model: each line is empty or one part
CodeContents == SeqsUpTo({<<>>} \cup {<<x>> : x \in CodeParts}, MaxCodeLines)

CodeInit == FunInit("code", CodeContents)

CodeFold ==
    /\ cfg = "code"
    /\ pc = "idle"
    /\ qres' = ProcessMultipleLineCODEValue(qarg)
    /\ pc' = "done"
    /\ UNCHANGED <<qarg, cfg, call, parser, glob, file, hist, storeVars>>

SpecCode == CodeInit /\ [][CodeFold]_vars

\* The line i of Content opens a block: it holds '{CODE(' and is no
\* complete value
OpensCode(Content, i) ==
    Content[i] # <<>> /\ HasCodeOpen(Content[i]) /\ ~CODEPattern(Content[i])

\* The last line of the block that the line i opens: the first later line
\* that holds ')}', or 0 when there is none
CodeEnd(Content, i) ==
    IF \E j \in (i + 1)..Len(Content) : HasCodeClose(Content[j])
    THEN CHOOSE j \in (i + 1)..Len(Content) :
            /\ HasCodeClose(Content[j])
            /\ \A k \in (i + 1)..(j - 1) : ~HasCodeClose(Content[k])
    ELSE 0

\* The blocks <<first, last>> of Content from the line i on
RECURSIVE CodeBlocks(_, _)
CodeBlocks(Content, i) ==
    IF i > Len(Content) THEN {}
    ELSE IF OpensCode(Content, i)
    THEN IF CodeEnd(Content, i) = 0 THEN {<<i, Len(Content)>>}
         ELSE {<<i, CodeEnd(Content, i)>>} \cup CodeBlocks(Content, CodeEnd(Content, i) + 1)
    ELSE CodeBlocks(Content, i + 1)

\* The lines a..b of Content joined
RECURSIVE Joined(_, _, _)
Joined(Content, a, b) == IF a > b THEN <<>> ELSE Content[a] \o Joined(Content, a + 1, b)

\* C21: ProcessMultipleLineCODEValue returns a list as long as its input;
\* a line outside every block keeps its index, a block is folded into the
\* entry at the index of its first line and its other indices hold "".
C21_CodeFoldKeepsIndices ==
    (cfg = "code" /\ pc = "done") =>
        /\ Len(qres) = Len(qarg)
        /\ \A i \in DOMAIN qarg :
              LET B == CodeBlocks(qarg, 1)
              IN  CASE \E b \in B : b[1] = i ->
                          qres[i] = Joined(qarg, i, (CHOOSE b \in B : b[1] = i)[2])
                    [] \E b \in B : b[1] < i /\ i <= b[2] -> qres[i] = <<>>
                    [] OTHER -> qres[i] = qarg[i]

\* The same for the Content lists whose blocks all end at a later line
C21_ClosedBlocks ==
    (\A b \in CodeBlocks(qarg, 1) : b[1] < b[2] /\ HasCodeClose(qarg[b[2]]))
        => C21_CodeFoldKeepsIndices

\* A block was folded
C21_Witness ==
    /\ cfg = "code" /\ pc = "done"
    /\ \E b \in CodeBlocks(qarg, 1) : b[1] + 1 < b[2] /\ HasCodeClose(qarg[b[2]])
    /\ Len(qres) = Len(qarg)

-----------------------------------------------------------------------------
(* Common/Misc.py: AnalyzePcdExpression.  A string is the sequence of its   *)
(* characters.  "R" stands for RanStr, the eight random letters and digits  *)
(* that take the place of two backslashes during the scan; "a" is any       *)
(* other character.                                                         *)

MaxSettingLen == 5   \* characters of a Setting given to AnalyzePcdExpression

TAB_VALUE_SPLIT == "|"

SettingChars == {"|", "\"", "'", "(", ")", "\\", " ", "a"}

\* Setting.replace('\\\\', RanStr)
RECURSIVE ReplaceBackslashes(_)
ReplaceBackslashes(S) ==
    IF S = <<>> THEN <<>>
    ELSE IF Len(S) >= 2 /\ S[1] = "\\" /\ S[2] = "\\"
    THEN <<"R">> \o ReplaceBackslashes(SubSeq(S, 3, Len(S)))
    ELSE <<S[1]>> \o ReplaceBackslashes(Tail(S))

\* ch.replace(RanStr, '\\\\')
RECURSIVE RestoreBackslashes(_)
RestoreBackslashes(S) ==
    IF S = <<>> THEN <<>>
    ELSE (IF S[1] = "R" THEN <<"\\", "\\">> ELSE <<S[1]>>) \o RestoreBackslashes(Tail(S))

\* str.strip()
RECURSIVE Strip(_)
Strip(S) ==
    IF S = <<>> THEN <<>>
    ELSE IF S[1] = " " THEN Strip(Tail(S))
    ELSE IF S[Len(S)] = " " THEN Strip(SubSeq(S, 1, Len(S) - 1))
    ELSE S

\* Data[Index - 1]: for the first character Python's index -1 reads the last
PrevChar(Data, Index) == IF Index = 1 THEN Data[Len(Data)] ELSE Data[Index - 1]

\* AnalyzePcdExpression, lines 174-189: the scan from Index on
RECURSIVE MaskSplits(_, _, _, _, _, _)
MaskSplits(Data, Index, InSingleQuoteStr, InDoubleQuoteStr, Pair, NewStr) ==
    IF Index > Len(Data) THEN NewStr
    ELSE LET ch == Data[Index]
             escaped == PrevChar(Data, Index) = "\\"
             InDouble == IF ch = "\"" /\ ~InSingleQuoteStr /\ ~escaped
                         THEN ~InDoubleQuoteStr ELSE InDoubleQuoteStr
             InSingle == IF ~(ch = "\"" /\ ~InSingleQuoteStr)
                            /\ ch = "'" /\ ~InDoubleQuoteStr /\ ~escaped
                         THEN ~InSingleQuoteStr ELSE InSingleQuoteStr
             quoted == InSingleQuoteStr \/ InDoubleQuoteStr
             NewPair == IF ch = "(" /\ ~quoted THEN Pair + 1
                        ELSE IF ch = ")" /\ ~quoted THEN Pair - 1
                        ELSE Pair
         IN  MaskSplits(Data, Index + 1, InSingle, InDouble, NewPair,
                        Append(NewStr,
                               IF (NewPair > 0 \/ InSingle \/ InDouble) /\ ch = TAB_VALUE_SPLIT
                               THEN "-" ELSE ch))

\* NewStr.find(TAB_VALUE_SPLIT, StartPos), 0 standing for -1
Find(NewStr, StartPos) ==
    IF \E i \in StartPos..Len(NewStr) : NewStr[i] = TAB_VALUE_SPLIT
    THEN CHOOSE i \in StartPos..Len(NewStr) :
            /\ NewStr[i] = TAB_VALUE_SPLIT
            /\ \A j \in StartPos..(i - 1) : NewStr[j] # TAB_VALUE_SPLIT
    ELSE 0

\* AnalyzePcdExpression, lines 190-198: the fields from StartPos on
RECURSIVE FieldsFrom(_, _, _)
FieldsFrom(Setting, NewStr, StartPos) ==
    LET Pos == Find(NewStr, StartPos)
    IN  IF Pos = 0 THEN <<Strip(SubSeq(Setting, StartPos, Len(Setting)))>>
        ELSE <<Strip(SubSeq(Setting, StartPos, Pos - 1))>>
                 \o FieldsFrom(Setting, NewStr, Pos + 1)

AnalyzePcdExpression(Setting0) ==
    LET Setting == Strip(ReplaceBackslashes(Setting0))
        NewStr == MaskSplits(Setting, 1, FALSE, FALSE, 0, <<>>)
        FieldList == FieldsFrom(Setting, NewStr, 1)
    IN  [i \in DOMAIN FieldList |-> RestoreBackslashes(FieldList[i])]

Settings == SeqsUpTo(SettingChars, MaxSettingLen)

PcdExprInit == FunInit("pcdexpr", Settings)

PcdExprAnalyze ==
    /\ cfg = "pcdexpr"
    /\ pc = "idle"
    /\ qres' = AnalyzePcdExpression(qarg)
    /\ pc' = "done"
    /\ UNCHANGED <<qarg, cfg, call, parser, glob, file, hist, storeVars>>

SpecPcdExpr == PcdExprInit /\ [][PcdExprAnalyze]_vars

\* The character i of S is escaped: an odd number of backslashes stands
\* right before it
Escaped(S, i) ==
    LET n == CHOOSE n \in 0..(i - 1) :
                /\ \A k \in (i - n)..(i - 1) : S[k] = "\\"
                /\ (i - n = 1 \/ S[i - n - 1] # "\\")
    IN  n % 2 = 1

\* The state <<quote, depth>> of S after its first i characters: the quote
\* that is open ("" for none) and the count of open parentheses
RECURSIVE Nesting(_, _)
Nesting(S, i) ==
    IF i = 0 THEN <<"", 0>>
    ELSE LET before == Nesting(S, i - 1)
             q == before[1]
             d == before[2]
         IN  IF S[i] \in {"\"", "'"} /\ ~Escaped(S, i)
             THEN IF q = "" THEN <<S[i], d>>
                  ELSE IF q = S[i] THEN <<"", d>> ELSE before
             ELSE IF q # "" THEN before
             ELSE IF S[i] = "(" THEN <<q, d + 1>>
             ELSE IF S[i] = ")" /\ d > 0 THEN <<q, d - 1>>
             ELSE before

\* The '|' of S that stand outside quotes and parentheses
OuterSplits(S) ==
    {i \in DOMAIN S : S[i] = "|" /\ Nesting(S, i) = <<"", 0>>}

\* The fields of S between the positions of P, from the position a on
RECURSIVE FieldsBetween(_, _, _)
FieldsBetween(S, P, a) ==
    IF \E i \in P : i >= a
    THEN LET i == CHOOSE i \in P : i >= a /\ \A j \in P : j >= a => i <= j
         IN  <<Strip(SubSeq(S, a, i - 1))>> \o FieldsBetween(S, P, i + 1)
    ELSE <<Strip(SubSeq(S, a, Len(S)))>>

\* C22: AnalyzePcdExpression splits its argument at exactly the '|' outside
\* single quotes, double quotes and parentheses, and the fields are the
\* (stripped) characters of the argument between them.
C22_SplitOutsideQuotes ==
    (cfg = "pcdexpr" /\ pc = "done") =>
        qres = FieldsBetween(Strip(qarg), OuterSplits(Strip(qarg)), 1)

\* No ')' of S outside quotes stands without a '(' before it
NoStrayClose(S) ==
    \A i \in DOMAIN S :
        (S[i] = ")" /\ Nesting(S, i - 1)[1] = "") => Nesting(S, i - 1)[2] > 0

\* S does not both begin with a quote and end with a single backslash
NoWrapAround(S) ==
    S # <<>> => ~(S[1] \in {"\"", "'"} /\ ReplaceBackslashes(S)[Len(ReplaceBackslashes(S))] = "\\")

\* The same for the arguments where the scan reads no character before the
\* first and counts no ')' without its '('
C22_WellFormed ==
    (NoStrayClose(Strip(qarg)) /\ NoWrapAround(Strip(qarg))) => C22_SplitOutsideQuotes

\* A '|' inside quotes was kept in its field and a '|' outside was split at
C22_Witness ==
    /\ cfg = "pcdexpr" /\ pc = "done"
    /\ qarg = <<"\"", "|", "\"", "|", "a">>
    /\ qres = <<<<"\"", "|", "\"">>, <<"a">>>>

-----------------------------------------------------------------------------
(* Common/Misc.py: AnalyzeDscPcd.  The characters of a field: "0" a digit,  *)
(* "x" the letter x, "!" a character that no name and no number holds, and  *)
(* "V" for the text VOID* (which StructPattern does not match).             *)

MaxMoreFields == 3   \* fields of a Setting after its third

TAB_VOID == <<"V">>

PcdFixedTypes == {"PCD_FIXED_AT_BUILD", "PCD_PATCHABLE_IN_MODULE",
                  "PCD_DYNAMIC_DEFAULT", "PCD_DYNAMIC_EX_DEFAULT"}

PcdVpdTypes == {"PCD_DYNAMIC_VPD", "PCD_DYNAMIC_EX_VPD"}

PcdHiiTypes == {"PCD_DYNAMIC_HII", "PCD_DYNAMIC_EX_HII"}

\* The PcdType arguments of the model; "PCD_DYNAMIC" is in none of the
\* groups that AnalyzeDscPcd tests for
PcdTypes == PcdFixedTypes \cup {"PCD_FEATURE_FLAG"} \cup PcdVpdTypes \cup PcdHiiTypes
                \cup {"PCD_DYNAMIC"}

\* StructPattern.match(S) is not None, line 55: [_a-zA-Z][0-9A-Za-z_]*$
StructPattern(S) ==
    /\ S # <<>>
    /\ S[1] = "x"
    /\ \A i \in DOMAIN S : S[i] \in {"x", "0"}

\* int(Size, 16) if Size.upper().startswith("0X") else int(Size) raises
\* nothing
SizeParses(Size) ==
    IF Len(Size) >= 2 /\ Size[1] = "0" /\ Size[2] = "x"
    THEN Len(Size) > 2 /\ \A i \in 3..Len(Size) : Size[i] = "0"
    ELSE Size # <<>> /\ \A i \in DOMAIN Size : Size[i] = "0"

\* The number of fields allowed under a datum type, lines 403-406 and 430-433
CountValidAnyType(aDataType, FieldList) == Len(FieldList) <= 3
CountValid(aDataType, FieldList) ==
    IF aDataType = <<>> THEN Len(FieldList) <= 1 ELSE Len(FieldList) <= 3

\* FieldList[i] where there is one, and '' where there is not
FieldOr(FieldList, i) == IF Len(FieldList) >= i THEN FieldList[i] ELSE <<>>

\* AnalyzeDscPcd for the fields of its Setting
DscPcdFields(FieldList, PcdType, DataType0) ==
    CASE PcdType \in PcdFixedTypes ->
            LET Value == FieldList[1]
                given == Len(FieldList) > 1 /\ FieldList[2] # <<>>
                aDataType == IF given THEN FieldList[2] ELSE DataType0
                typeOk == ~(given /\ FieldList[2] # TAB_VOID /\ ~StructPattern(FieldList[2]))
                Size == FieldOr(FieldList, 3)
                sizeOk == Size = <<>> \/ SizeParses(Size)
            IN  [ValueList |-> <<Value, aDataType, IF sizeOk THEN Size ELSE <<"-", "1">>>>,
                 IsValid |-> typeOk /\ CountValid(aDataType, FieldList) /\ sizeOk,
                 Index |-> 0]
      [] PcdType = "PCD_FEATURE_FLAG" ->
            [ValueList |-> <<FieldList[1], DataType0, <<>>>>,
             IsValid |-> Len(FieldList) <= 1,
             Index |-> 0]
      [] PcdType \in PcdVpdTypes ->
            LET VpdOffset == FieldList[1]
                Value == IF DataType0 # TAB_VOID THEN FieldOr(FieldList, 2)
                         ELSE FieldOr(FieldList, 3)
                Size == IF DataType0 # TAB_VOID THEN <<>> ELSE FieldOr(FieldList, 2)
                sizeOk == Size = <<>> \/ SizeParses(Size)
            IN  [ValueList |-> <<VpdOffset, IF sizeOk THEN Size ELSE <<"-", "1">>, Value>>,
                 IsValid |-> CountValid(DataType0, FieldList) /\ sizeOk,
                 Index |-> 2]
      [] PcdType \in PcdHiiTypes ->
            [ValueList |-> [i \in 1..5 |-> FieldOr(FieldList, i)],
             IsValid |-> 3 <= Len(FieldList) /\ Len(FieldList) <= 5,
             Index |-> 3]
      [] OTHER -> [ValueList |-> <<>>, IsValid |-> FALSE, Index |-> 0]

AnalyzeDscPcd(Setting, PcdType, aDataType) ==
    DscPcdFields(AnalyzePcdExpression(Setting), PcdType, aDataType)

\* The texts of a field
FieldTexts == {<<>>, <<"0">>, <<"0", "x", "0">>, <<"x", "0">>, TAB_VOID, <<"!">>,
               <<"\"", "|", "\"">>}

\* '|'.join(Fields)
RECURSIVE JoinSplit(_)
JoinSplit(Fields) ==
    IF Len(Fields) = 0 THEN <<>>
    ELSE IF Len(Fields) = 1 THEN Fields[1]
    ELSE Fields[1] \o <<TAB_VALUE_SPLIT>> \o JoinSplit(Tail(Fields))

\* The Settings of the model: up to three fields of any text, and after
\* three fields up to MaxMoreFields fields "0"
DscPcdSettings ==
    {JoinSplit(f) : f \in SeqsUpTo(FieldTexts, 3) \ {<<>>}}
        \cup {JoinSplit(f \o [i \in 1..k |-> <<"0">>]) :
                  f \in [1..3 -> FieldTexts], k \in 1..MaxMoreFields}

\* The DataType arguments: none, VOID* and a name
DscPcdDataTypes == {<<>>, TAB_VOID, <<"x", "0">>}

DscPcdInit ==
    FunInit("dscpcd", [Setting : DscPcdSettings, PcdType : PcdTypes,
                       DataType : DscPcdDataTypes])

DscPcdAnalyze ==
    /\ cfg = "dscpcd"
    /\ pc = "idle"
    /\ qres' = AnalyzeDscPcd(qarg.Setting, qarg.PcdType, qarg.DataType)
    /\ pc' = "done"
    /\ UNCHANGED <<qarg, cfg, call, parser, glob, file, hist, storeVars>>

SpecDscPcd == DscPcdInit /\ [][DscPcdAnalyze]_vars

\* The fields of the Setting of the call: its parts between the '|' outside
\* quotes and parentheses
PcdFields == FieldsBetween(Strip(qarg.Setting), OuterSplits(Strip(qarg.Setting)), 1)

\* The field i is there and is not empty
Present(F, i) == Len(F) >= i /\ F[i] # <<>>

\* A datum type as the claim asks for it
DatumTypeOk(t) == t = TAB_VOID \/ StructPattern(t)

-----------------------------------------------------------------------------
(* Common/Misc.py: CheckPcdDatum for the integer types.  The result is the  *)
(* first element of the pair returned, the message being left out.          *)

MaxDatumLen == 5   \* characters of a Value given to CheckPcdDatum

DatumChars == {"0", "2", "5", "7", "9", "f", "x", "-"}

\* The integer types of the model; UINT32 and UINT64 go the same way with
\* maxima no Value of the model reaches
DatumIntTypes == {"UINT8", "UINT16"}

\* MAX_VAL_TYPE[Type]
MAX_VAL_TYPE(Type) == IF Type = "UINT8" THEN 2^8 - 1 ELSE 2^16 - 1

\* The value of a digit character
DigitValue(c) ==
    CASE c = "0" -> 0 [] c = "2" -> 2 [] c = "5" -> 5 [] c = "7" -> 7
      [] c = "9" -> 9 [] c = "f" -> 15 [] OTHER -> 99

\* S is one digit or more, each below the base
IsNumber(S, base) == S # <<>> /\ \A i \in DOMAIN S : DigitValue(S[i]) < base

\* The value of the digits S in the base
RECURSIVE NumberValue(_, _)
NumberValue(S, base) ==
    IF S = <<>> THEN 0
    ELSE NumberValue(SubSeq(S, 1, Len(S) - 1), base) * base + DigitValue(S[Len(S)])

\* Value.lstrip('0')
RECURSIVE LStripZero(_)
LStripZero(S) == IF S # <<>> /\ S[1] = "0" THEN LStripZero(Tail(S)) ELSE S

\* int(S, 0) of Python: [ok |-> it raises nothing, val |-> its value].  A
\* sign, then '0x' and hexadecimal digits, or zeros only, or decimal digits
\* that do not begin with 0.
IntBase0(S) ==
    LET neg == S # <<>> /\ S[1] = "-"
        body == IF neg THEN Tail(S) ELSE S
        sign == IF neg THEN -1 ELSE 1
    IN  IF Len(body) >= 2 /\ body[1] = "0" /\ body[2] = "x"
        THEN IF IsNumber(SubSeq(body, 3, Len(body)), 16)
             THEN [ok |-> TRUE, val |-> sign * NumberValue(SubSeq(body, 3, Len(body)), 16)]
             ELSE [ok |-> FALSE, val |-> 0]
        ELSE IF IsNumber(body, 10) /\ (body[1] = "0" => LStripZero(body) = <<>>)
        THEN [ok |-> TRUE, val |-> sign * NumberValue(body, 10)]
        ELSE [ok |-> FALSE, val |-> 0]

\* CheckPcdDatum, lines 515-526
CheckPcdDatumInt(Type, Value0) ==
    LET Value == IF /\ Value0 # <<>> /\ Value0[1] = "0"
                    /\ ~(Len(Value0) >= 2 /\ Value0[2] = "x")
                    /\ Len(Value0) > 1
                    /\ LStripZero(Value0) # <<>>
                 THEN LStripZero(Value0) ELSE Value0
        n == IntBase0(Value)
    IN  IF ~n.ok THEN FALSE
        ELSE IF Value # <<>> /\ n.val < 0 THEN FALSE
        ELSE ~(n.val > MAX_VAL_TYPE(Type))

DatumIntInit ==
    FunInit("datumint", [Type : DatumIntTypes, Value : SeqsUpTo(DatumChars, MaxDatumLen)])

DatumIntCheck ==
    /\ cfg = "datumint"
    /\ pc = "idle"
    /\ qres' = CheckPcdDatumInt(qarg.Type, qarg.Value)
    /\ pc' = "done"
    /\ UNCHANGED <<qarg, cfg, call, parser, glob, file, hist, storeVars>>

SpecDatumInt == DatumIntInit /\ [][DatumIntCheck]_vars

\* An integer of C: [ok, val].  A sign, then '0x' and hexadecimal digits, or
\* 0 and octal digits, or decimal digits.
CInteger(S) ==
    LET neg == S # <<>> /\ S[1] = "-"
        body == IF neg THEN Tail(S) ELSE S
        sign == IF neg THEN -1 ELSE 1
    IN  IF Len(body) >= 2 /\ body[1] = "0" /\ body[2] = "x"
        THEN IF IsNumber(SubSeq(body, 3, Len(body)), 16)
             THEN [ok |-> TRUE, val |-> sign * NumberValue(SubSeq(body, 3, Len(body)), 16)]
             ELSE [ok |-> FALSE, val |-> 0]
        ELSE IF body # <<>> /\ body[1] = "0"
        THEN IF IsNumber(body, 8)
             THEN [ok |-> TRUE, val |-> sign * NumberValue(body, 8)]
             ELSE [ok |-> FALSE, val |-> 0]
        ELSE IF IsNumber(body, 10)
        THEN [ok |-> TRUE, val |-> sign * NumberValue(body, 10)]
        ELSE [ok |-> FALSE, val |-> 0]

\* C24: CheckPcdDatum accepts a Value of an integer type exactly when it is
\* a decimal, hexadecimal or C octal integer from 0 to the maximum of the
\* type, a Value with a leading 0 being octal.
C24_IntegerRange ==
    (cfg = "datumint" /\ pc = "done") =>
        (qres <=> /\ CInteger(qarg.Value).ok
                  /\ CInteger(qarg.Value).val >= 0
                  /\ CInteger(qarg.Value).val <= MAX_VAL_TYPE(qarg.Type))

\* The same for the Values that do not begin with 0 and a character other
\* than x
C24_NoLeadingZero ==
    ~(Len(qarg.Value) > 1 /\ qarg.Value[1] = "0" /\ qarg.Value[2] # "x")
        => C24_IntegerRange

\* A hexadecimal Value at the maximum of its type was accepted
C24_Witness ==
    /\ cfg = "datumint" /\ pc = "done"
    /\ qarg = [Type |-> "UINT8", Value |-> <<"0", "x", "f", "f">>]
    /\ qres

-----------------------------------------------------------------------------
(* Common/Misc.py: CheckPcdDatum for VOID*.  "a" is a printable character   *)
(* and "v" the vertical tab, which the printable set of the check leaves    *)
(* out.                                                                     *)

MaxVoidLen == 5   \* characters of a VOID* Value given to CheckPcdDatum

VoidChars == {"L", "\"", "'", "{", "}", "a", "v"}

\* Value.startswith(P)
StartsWith(Value, P) == Len(Value) >= Len(P) /\ SubSeq(Value, 1, Len(P)) = P

\* Value.endswith(P)
EndsWith(Value, P) ==
    Len(Value) >= Len(P) /\ SubSeq(Value, Len(Value) - Len(P) + 1, Len(Value)) = P

\* The condition of lines 493-495, 'and' binding before 'or'
QuotedForm(Value) ==
    \/ (StartsWith(Value, <<"L", "\"">>) \/ StartsWith(Value, <<"\"">>))
          /\ EndsWith(Value, <<"\"">>)
    \/ StartsWith(Value, <<"{">>) /\ EndsWith(Value, <<"}">>)
    \/ StartsWith(Value, <<"L", "'">>)
    \/ StartsWith(Value, <<"'">>) /\ EndsWith(Value, <<"'">>)

\* ValueRe.match(Value), line 492: \s*L?\".*\"\s*$ (the vertical tab is
\* white space, and '.' matches it)
ValueRe(Value) ==
    \E a \in 0..Len(Value), l \in {0, 1} :
        /\ \A i \in 1..a : Value[i] = "v"
        /\ l = 1 => (Len(Value) > a /\ Value[a + 1] = "L")
        /\ Len(Value) > a + l
        /\ Value[a + l + 1] = "\""
        /\ \E j \in (a + l + 2)..Len(Value) :
              /\ Value[j] = "\""
              /\ \A k \in (j + 1)..Len(Value) : Value[k] = "v"

\* set(Value).issubset(Printset) for the Value between its quotes
Printable(Value) ==
    LET from == IF StartsWith(Value, <<"L">>) THEN 3 ELSE 2
    IN  \A i \in from..(Len(Value) - 1) : Value[i] # "v"

\* CheckPcdDatum, lines 491-510
CheckPcdDatumVoid(Value) ==
    IF ~QuotedForm(Value) THEN FALSE
    ELSE IF ValueRe(Value) THEN Printable(Value)
    ELSE TRUE

DatumVoidInit == FunInit("datumvoid", SeqsUpTo(VoidChars, MaxVoidLen))

DatumVoidCheck ==
    /\ cfg = "datumvoid"
    /\ pc = "idle"
    /\ qres' = CheckPcdDatumVoid(qarg)
    /\ pc' = "done"
    /\ UNCHANGED <<qarg, cfg, call, parser, glob, file, hist, storeVars>>

SpecDatumVoid == DatumVoidInit /\ [][DatumVoidCheck]_vars

\* Value is text between the opening form P and the closing form Q
Enclosed(Value, P, Q) ==
    Len(Value) >= Len(P) + Len(Q) /\ StartsWith(Value, P) /\ EndsWith(Value, Q)

\* C25: CheckPcdDatum accepts a VOID* Value only if it stands in matching
\* quotes ("...", L"...", '...', L'...') or in braces {...}; a Value that
\* opens with a quote and does not close with it is rejected.
C25_QuotesMatch ==
    (cfg = "datumvoid" /\ pc = "done" /\ qres) =>
        \/ Enclosed(qarg, <<"\"">>, <<"\"">>)
        \/ Enclosed(qarg, <<"L", "\"">>, <<"\"">>)
        \/ Enclosed(qarg, <<"'">>, <<"'">>)
        \/ Enclosed(qarg, <<"L", "'">>, <<"'">>)
        \/ Enclosed(qarg, <<"{">>, <<"}">>)

\* The same for the Values of more than one character after an L that do
\* not open with L'
C25_NotWideSingle ==
    (~StartsWith(qarg, <<"L", "'">>)
        /\ Len(qarg) > (IF StartsWith(qarg, <<"L">>) THEN 2 ELSE 1))
        => C25_QuotesMatch

\* A Value with an opening double quote and no closing one was rejected
C25_Witness ==
    /\ cfg = "datumvoid" /\ pc = "done"
    /\ qarg = <<"\"", "a">>
    /\ ~qres

-----------------------------------------------------------------------------
(* Properties of the '!error' directive *)

\* The line i of the file stands inside a conditional
InConditional(i) == OpenCount(SubSeq(file, 1, i - 1), 1, 0) > 0

\* C26: every '!error' in an enabled context aborts the post-processing
\* with ERROR_STATEMENT, wherever it stands in the file, also before the
\* first section header; an '!error' in a disabled context does not.  So a
\* run that came to its end has met no '!error' outside the conditionals,
\* and a run aborts at an '!error' only with no False on the evaluation
\* stack.
C26_ErrorAborts ==
    /\ hist # <<>> => \A i \in DOMAIN file : file[i].k = "ERROR" => InConditional(i)
    /\ parser.Error = "ERROR_STATEMENT" => NoFalse(parser.DirectiveEvalStack)

\* The same for the '!error' lines that follow a section header
C26_ErrorInSection ==
    /\ hist # <<>> =>
          \A i \in DOMAIN file :
              (file[i].k = "ERROR" /\ ActiveScope(i) # <<>>) => InConditional(i)
    /\ parser.Error = "ERROR_STATEMENT" => NoFalse(parser.DirectiveEvalStack)

\* A run was aborted by an '!error' inside a conditional found true
C26_Witness ==
    /\ parser.Error = "ERROR_STATEMENT"
    /\ parser.DirectiveEvalStack # <<>>

-----------------------------------------------------------------------------
(* MetaFileParser2.py: InfParser.Start and DecParser.Start.  A line is what *)
(* CleanString2 makes of it, the text and the comment: "EMPTY" has neither, *)
(* "CMT" a comment alone, "ITEM" a text alone, "ITEMC" a text and the       *)
(* comment "t"; "SEC" is a section header.  The files hold no block         *)
(* comment, no DEFINE and no '{CODE(' value.                                *)

MaxFileLines == 4   \* lines of a module or package file

\* The comment CleanString2 returns for the line
CommentOf(line) ==
    CASE line.k = "CMT" -> line.a
      [] line.k = "ITEMC" -> "t"
      [] OTHER -> ""

\* InfParser.DataType and DecParser.DataType for the section names of the
\* model
MetaDataType(name) ==
    CASE name = "BINARIES" -> "BINARY_FILE"
      [] name = "DEFINES" -> "HEADER"
      [] name = "GUIDS" -> "GUID"

\* The row handed to ModuleTable.Insert or PackageTable.Insert by _Store
MetaRow(Model, V1, V2, V3, Arch, S2, Owner, LineNo) ==
    [ID |-> 0, Model |-> Model, Value1 |-> V1, Value2 |-> V2, Value3 |-> V3,
     Scope1 |-> Arch, Scope2 |-> S2, BelongsToItem |-> Owner,
     StartLine |-> LineNo, EndLine |-> LineNo, Enabled |-> PyBool(TRUE)]

\* Comment rows that belong to no item
CommentRowsUnowned(Comments, V2, V3, Arch, S2, LastItem) ==
    [k \in DOMAIN Comments |->
        MetaRow("COMMENT", Comments[k][1], V2, V3, Arch, S2, -1, Comments[k][2])]

\* The rows of the comments of an item, InfParser.Start lines 714-716 and
\* DecParser.Start lines 1913-1926
CommentRows(Comments, V2, V3, Arch, S2, LastItem) ==
    [k \in DOMAIN Comments |->
        MetaRow("COMMENT", Comments[k][1], V2, V3, Arch, S2, LastItem, Comments[k][2])]

\* _Store of the rows from the one at i on
RECURSIVE StoreEach(_, _, _, _)
StoreEach(sh, t, rows, i) ==
    IF i > Len(rows) THEN t ELSE StoreEach(sh, Insert(sh, t, rows[i]), rows, i + 1)

\* MetaFileParser.__init__ and the locals of InfParser.Start; Comments,
\* SectionComments and TailComments hold pairs <<comment, line number>>
NewInfParser ==
    [Table |-> [NewTable EXCEPT !.ID = GetTableID(NewGlobals)], Scope |-> <<>>, SectionType |-> UNKNOWN, Owner |-> <<-1>>,
     GetHeaderComment |-> FALSE, Comments |-> <<>>, SectionComments |-> <<>>,
     TailComments |-> <<>>, Finished |-> FALSE, Error |-> ""]

\* InfParser.Start, lines 634-644: a section header
InfHeader(ps, line) ==
    LET headers == [i \in DOMAIN ps.Comments |->
                       MetaRow("HEADER_COMMENT", ps.Comments[i][1], "", "", COMMON,
                               <<COMMON>>, Last(ps.Owner), ps.Comments[i][2])]
        p1 == IF ~ps.GetHeaderComment
              THEN [ps EXCEPT !.Table = StoreEach("INF", @, headers, 1),
                              !.GetHeaderComment = TRUE]
              ELSE [ps EXCEPT !.TailComments = @ \o ps.SectionComments \o ps.Comments]
    IN  [p1 EXCEPT !.Comments = <<>>, !.Scope = line.s,
                   !.SectionType = MetaDataType(line.a)]

\* InfParser.Start, lines 699-718: the records of an item line, one item
\* and its comments for each scope from the one at i on
RECURSIVE InfStoreItem(_, _, _, _, _)
InfStoreItem(ps, line, LineNo, Comments, i) ==
    IF i > Len(ps.Scope) THEN ps
    ELSE LET Arch == ps.Scope[i][1]
             Platform == ps.Scope[i][2]
             t1 == Insert("INF", ps.Table,
                          MetaRow(ps.SectionType, line.a, line.b, "", Arch, Platform,
                                  Last(ps.Owner), LineNo))
             LastItem == t1.ID
             rows == CommentRows(Comments, "", "", Arch, Platform, LastItem)
         IN  InfStoreItem([ps EXCEPT !.Table = StoreEach("INF", t1, rows, 1)],
                          line, LineNo, Comments, i + 1)

\* InfParser.Start, lines 612-719: one turn of the loop, on Content[Index]
InfParseLine(ps, Index, line) ==
    CASE line.k = "EMPTY" ->
            IF ps.GetHeaderComment
            THEN [ps EXCEPT !.SectionComments = @ \o ps.Comments, !.Comments = <<>>]
            ELSE ps
      [] line.k = "CMT" ->
            [ps EXCEPT !.Comments = Append(@, <<CommentOf(line), Index + 1>>)]
      [] line.k = "SEC" -> InfHeader(ps, line)
      [] OTHER ->
            LET Comments == IF CommentOf(line) # ""
                            THEN Append(ps.Comments, <<CommentOf(line), Index + 1>>)
                            ELSE ps.Comments
            IN  [InfStoreItem(ps, line, Index + 1, Comments, 1)
                    EXCEPT !.Comments = <<>>, !.SectionComments = <<>>]

\* InfParser.Start, lines 720-731, and _Done
InfEndOfFile(ps) ==
    LET Tail0 == ps.TailComments \o ps.SectionComments \o ps.Comments
        rows == [i \in DOMAIN Tail0 |->
                    MetaRow("TAIL_COMMENT", Tail0[i][1], "", "", COMMON, <<COMMON>>,
                            Last(ps.Owner), -1)]
    IN  [ps EXCEPT !.TailComments = Tail0,
                   !.Table = SetEndFlag(StoreEach("INF", @, rows, 1), "INF"),
                   !.Finished = TRUE]

\* MetaFileParser.__init__ and DecParser.__init__
NewDecParser ==
    [Table |-> [NewTable EXCEPT !.ID = GetTableID(NewGlobals)], Scope |-> <<>>, SectionType |-> UNKNOWN, Owner |-> <<-1>>,
     Comments |-> <<>>, DefinesCount |-> 0, Finished |-> FALSE, Error |-> ""]

\* DecParser.Start, lines 1898-1927: the records of an item line
RECURSIVE DecStoreItem(_, _, _, _)
DecStoreItem(ps, line, LineNo, i) ==
    IF i > Len(ps.Scope) THEN ps
    ELSE LET Arch == ps.Scope[i][1]
             ModuleType == ps.Scope[i][2]
             Type == ps.Scope[i][3]
             t1 == Insert("DEC", ps.Table,
                          MetaRow(Type, line.a, line.b, "", Arch, ModuleType,
                                  Last(ps.Owner), LineNo))
             LastItem == t1.ID
             rows == CommentRows(ps.Comments, line.a, line.b, Arch, ModuleType, LastItem)
         IN  DecStoreItem([ps EXCEPT !.Table = StoreEach("DEC", t1, rows, 1)],
                          line, LineNo, i + 1)

\* DecParser._SectionHeaderParser for the headers of the model: the third
\* element of a scope is the model of its section
DecScope(line) ==
    [i \in DOMAIN line.s |-> <<line.s[i][1], line.s[i][2], MetaDataType(line.a)>>]

\* DecParser.Start, lines 1859-1928: one turn of the loop, on Content[Index]
DecParseLine(ps, Index, line) ==
    LET p1 == IF CommentOf(line) # ""
              THEN [ps EXCEPT !.Comments = Append(@, <<CommentOf(line), Index + 1>>)]
              ELSE ps
    IN  CASE line.k \in {"EMPTY", "CMT"} -> p1
          [] line.k = "SEC" ->
                [p1 EXCEPT !.Scope = DecScope(line),
                           !.SectionType = <<MetaDataType(line.a)>>,
                           !.DefinesCount = IF line.a = "DEFINES" THEN @ + 1 ELSE @,
                           !.Comments = <<>>]
          [] OTHER ->
                IF p1.SectionType = UNKNOWN THEN Raise(p1, "FORMAT_INVALID")
                ELSE [DecStoreItem(p1, line, Index + 1, 1) EXCEPT !.Comments = <<>>]

\* A DecParser.Start that asks for no [Defines] section
DecEndOfFileAnyDefines(ps) ==
    [ps EXCEPT !.Table = SetEndFlag(@, "DEC"), !.Finished = TRUE]

\* DecParser.Start, lines 1929-1933, and _Done
DecEndOfFile(ps) ==
    IF ps.DefinesCount > 1 \/ ps.DefinesCount = 0 THEN Raise(ps, "FORMAT_INVALID")
    ELSE [ps EXCEPT !.Table = SetEndFlag(@, "DEC"), !.Finished = TRUE]

\* The lines a file of each dialect is made of
FileAlphabet(sh) ==
    CASE sh = "INF" ->
            {Line("EMPTY", "", ""), Line("CMT", "c", ""),
             Line("ITEM", "PE32", "x.efi"), Line("ITEMC", "PE32", "x.efi"),
             SecLine("BINARIES", ScopeCommon), SecLine("BINARIES", ScopeTwo)}
      [] sh = "DEC" ->
            {Line("EMPTY", "", ""), Line("CMT", "c", ""),
             Line("ITEM", "x", "v"), Line("ITEMC", "x", "v"),
             SecLine("DEFINES", ScopeCommon), SecLine("GUIDS", ScopeTwo)}
      [] sh = "DSC" -> Alphabet("file")

FileInit ==
    /\ cfg = "file"
    /\ shape \in Shapes
    /\ pc = IF shape = "DSC" THEN "idle" ELSE "start"
    /\ call = <<>>
    /\ glob = NewGlobals
    /\ parser = CASE shape = "INF" -> NewInfParser
                  [] shape = "DEC" -> NewDecParser
                  [] shape = "DSC" ->
                        NewParser([NewTable EXCEPT !.ID = GetTableID(NewGlobals)], -1, -1)
    /\ file = <<>>
    /\ hist = <<>>
    /\ qres = NoResult
    /\ qarg = NoResult
    /\ table = NewTable

\* InfParser.Start: one turn of the loop over the lines of the file
InfStartLine ==
    /\ shape = "INF"
    /\ pc = "start"
    /\ Len(file) < MaxFileLines
    /\ \E line \in FileAlphabet("INF") :
          /\ parser' = InfParseLine(parser, Len(file), line)
          /\ file' = Append(file, line)
    /\ pc' = IF parser'.Error # "" THEN "error" ELSE "start"
    /\ UNCHANGED <<cfg, call, glob, hist, qres, qarg, storeVars>>

\* InfParser.Start: the end of the file
InfStartEnd ==
    /\ shape = "INF"
    /\ pc = "start"
    /\ parser' = InfEndOfFile(parser)
    /\ pc' = "done"
    /\ UNCHANGED <<cfg, call, glob, file, hist, qres, qarg, storeVars>>

\* DecParser.Start: one turn of the loop over the lines of the file
DecStartLine ==
    /\ shape = "DEC"
    /\ pc = "start"
    /\ Len(file) < MaxFileLines
    /\ \E line \in FileAlphabet("DEC") :
          /\ parser' = DecParseLine(parser, Len(file), line)
          /\ file' = Append(file, line)
    /\ pc' = IF parser'.Error # "" THEN "error" ELSE "start"
    /\ UNCHANGED <<cfg, call, glob, hist, qres, qarg, storeVars>>

\* DecParser.Start: the end of the file
DecStartEnd ==
    /\ shape = "DEC"
    /\ pc = "start"
    /\ parser' = DecEndOfFile(parser)
    /\ pc' = IF parser'.Error # "" THEN "error" ELSE "done"
    /\ UNCHANGED <<cfg, call, glob, file, hist, qres, qarg, storeVars>>

\* DscParser.Start, entered by a query
DscStart ==
    /\ shape = "DSC"
    /\ GetItem \/ StartLine \/ StartEnd

FileNext ==
    \/ InfStartLine
    \/ InfStartEnd
    \/ DecStartLine
    \/ DecStartEnd
    \/ DscStart

SpecFile == FileInit /\ [][FileNext]_vars

\* The table the parser of the file has filled
FileTable == IF shape = "DSC" THEN parser.RawTable ELSE parser.Table

\* C27: parsing an empty file succeeds in each of the three dialects and
\* leaves the store holding the end-flag row alone.
C27_EmptyFile ==
    (file = <<>> /\ pc \notin {"idle", "start"}) =>
        /\ parser.Error = ""
        /\ parser.Finished
        /\ FileTable.CurrentContent = <<Dummy(shape)>>

\* C27 (amended): so it is for a platform and a module file; an empty
\* package file is rejected with FORMAT_INVALID, for want of a [Defines]
\* section, and its store is left empty.
C27_EmptyFileByDialect ==
    (file = <<>> /\ pc \notin {"idle", "start"}) =>
        IF shape = "DEC"
        THEN /\ parser.Error = "FORMAT_INVALID"
             /\ ~parser.Finished
             /\ FileTable.CurrentContent = <<>>
        ELSE /\ parser.Error = ""
             /\ parser.Finished
             /\ FileTable.CurrentContent = <<Dummy(shape)>>

\* An empty module file was parsed
C27_Witness == file = <<>> /\ shape = "INF" /\ pc = "done"

CommentModels == {"COMMENT", "HEADER_COMMENT", "TAIL_COMMENT"}

\* C28: in a module or package file every comment record that is neither
\* header nor tail comment belongs to a record of the store that is no
\* comment and stands on the comment's line or a later one.
C28_CommentOwner ==
    shape \in {"INF", "DEC"} =>
        \A i \in DOMAIN FileTable.CurrentContent :
            LET r == FileTable.CurrentContent[i]
            IN  r.Model = "COMMENT" =>
                    \E j \in DOMAIN FileTable.CurrentContent :
                        LET q == FileTable.CurrentContent[j]
                        IN  /\ q.ID = r.BelongsToItem
                            /\ q.Model \notin CommentModels
                            /\ q.StartLine >= r.StartLine

\* A package file was parsed with a comment on a line before its item
C28_Witness ==
    /\ shape = "DEC" /\ pc = "done"
    /\ \E i, j \in DOMAIN FileTable.CurrentContent :
          /\ FileTable.CurrentContent[i].Model = "COMMENT"
          /\ FileTable.CurrentContent[j].ID = FileTable.CurrentContent[i].BelongsToItem
          /\ FileTable.CurrentContent[j].StartLine > FileTable.CurrentContent[i].StartLine

\* The lines of the file of the kinds K
LinesOf(K) == {i \in DOMAIN file : file[i].k \in K}

\* The line of the first section header, or the line after the last
FirstHeader ==
    IF LinesOf({"SEC"}) = {} THEN Len(file) + 1
    ELSE CHOOSE i \in LinesOf({"SEC"}) : \A j \in LinesOf({"SEC"}) : i <= j

\* The last line that has an item record, or the first section header
LastItemLine ==
    LET items == {i \in LinesOf({"ITEM", "ITEMC"}) : i > FirstHeader}
    IN  IF items = {} THEN FirstHeader
        ELSE CHOOSE i \in items : \A j \in items : j <= i

\* The rows of the model m in the table of the file
RowsOfModel(m) == SelectSeq(FileTable.CurrentContent, LAMBDA r : r.Model = m)

\* C29: in a module file the comments before the first section header are
\* stored as header comments, and no comment is stored as tail comment but
\* those that follow the last item record; a file of comments alone has no
\* record that is no comment, and its comments are header comments.
C29_HeaderAndTail ==
    (shape = "INF" /\ pc = "done") =>
        /\ \A i \in LinesOf({"CMT"}) :
              i < FirstHeader =>
                  \E k \in DOMAIN RowsOfModel("HEADER_COMMENT") :
                      RowsOfModel("HEADER_COMMENT")[k].StartLine = i
        /\ Len(RowsOfModel("TAIL_COMMENT"))
              <= Cardinality({i \in LinesOf({"CMT"}) : i > LastItemLine})
        /\ LinesOf({"SEC", "ITEM", "ITEMC"}) = {} =>
              \A k \in DOMAIN FileTable.CurrentContent :
                  FileTable.CurrentContent[k].Model \in {"HEADER_COMMENT", "-1"}

\* The same for the files with one section header and no item line before
\* it
C29_OneSection ==
    (Cardinality(LinesOf({"SEC"})) = 1 /\ \A i \in LinesOf({"ITEM", "ITEMC"}) : i > FirstHeader)
        => C29_HeaderAndTail

\* A module file of one section was parsed that has a header comment and a
\* tail comment
C29_Witness ==
    /\ shape = "INF" /\ pc = "done"
    /\ Cardinality(LinesOf({"SEC"})) = 1
    /\ RowsOfModel("HEADER_COMMENT") # <<>>
    /\ RowsOfModel("TAIL_COMMENT") # <<>>

-----------------------------------------------------------------------------
(* MetaFileParser2.py: DscParser._SkuIdParser and _DefaultStoresParser.  A  *)
(* line is either a DEFINE statement or the TokenList that                  *)
(* GetSplitValueList makes of it at the '|'.                                *)

MaxTokens == 4   \* fields of a line of a [SkuIds] or [DefaultStores] section

\* self._ValueList[0:len(TokenList)] = TokenList
SliceAssign(ValueList, TokenList) ==
    TokenList \o SubSeq(ValueList, Len(TokenList) + 1, Len(ValueList))

\* _SkuIdParser, lines 1194-1198
SkuIdParser(ps, TokenList) ==
    IF Len(TokenList) \notin {2, 3} THEN Raise(ps, "FORMAT_INVALID")
    ELSE [ps EXCEPT !.ValueList = SliceAssign(@, TokenList)]

\* A _DefaultStoresParser that takes what _SkuIdParser takes
DefaultStoresLikeSkuIds(ps, TokenList) == SkuIdParser(ps, TokenList)

\* _DefaultStoresParser, lines 1201-1205
DefaultStoresParser(ps, TokenList) ==
    IF Len(TokenList) # 2 THEN Raise(ps, "FORMAT_INVALID")
    ELSE [ps EXCEPT !.ValueList = SliceAssign(@, TokenList)]

\* @ParseMacro around the two parsers: a DEFINE statement goes to the macro
\* parser, any other line to the parser of the section
SkuSectionLine(ps, SectionType, Define, TokenList) ==
    IF Define THEN MacroParser(ps, Line("DEFINE", "M", "a"))
    ELSE IF SectionType = "SKU_ID" THEN SkuIdParser(ps, TokenList)
    ELSE DefaultStoresParser(ps, TokenList)

SkuTokens == {"", "0", "a"}

SkuLines ==
    [SectionType : {"SKU_ID", "DEFAULT_STORES"}, Define : {FALSE},
     TokenList : SeqsUpTo(SkuTokens, MaxTokens) \ {<<>>}]
        \cup [SectionType : {"SKU_ID", "DEFAULT_STORES"}, Define : {TRUE},
              TokenList : {<<"DEFINE M = a">>}]

SkuInit == FunInit("sku", SkuLines)

SkuParse ==
    /\ cfg = "sku"
    /\ pc = "idle"
    /\ parser' = SkuSectionLine([parser EXCEPT !.SectionType = qarg.SectionType],
                                qarg.SectionType, qarg.Define, qarg.TokenList)
    /\ qres' = parser'.ValueList
    /\ pc' = IF parser'.Error # "" THEN "error" ELSE "done"
    /\ UNCHANGED <<qarg, cfg, call, glob, file, hist, storeVars>>

SpecSku == SkuInit /\ [][SkuParse]_vars

\* C30: a line of a [SkuIds] section and a line of a [DefaultStores] section
\* are each accepted exactly when they split at '|' into 2 or 3 fields, and
\* are refused with FORMAT_INVALID otherwise.
C30_TwoOrThreeFields ==
    (cfg = "sku" /\ pc # "idle") =>
        IF Len(qarg.TokenList) \in {2, 3}
        THEN pc = "done"
        ELSE pc = "error" /\ parser.Error = "FORMAT_INVALID"

\* C30 (amended): a line that is no DEFINE statement is accepted in
\* [SkuIds] exactly with 2 or 3 fields and in [DefaultStores] exactly with 2.
C30_FieldsBySection ==
    (cfg = "sku" /\ pc # "idle" /\ ~qarg.Define) =>
        IF Len(qarg.TokenList) \in
              (IF qarg.SectionType = "SKU_ID" THEN {2, 3} ELSE {2})
        THEN pc = "done" /\ SubSeq(qres, 1, Len(qarg.TokenList)) = qarg.TokenList
        ELSE pc = "error" /\ parser.Error = "FORMAT_INVALID"

\* A line of three fields was accepted in [SkuIds] and one refused in
\* [DefaultStores]
C30_Witness ==
    /\ cfg = "sku" /\ Len(qarg.TokenList) = 3
    /\ \/ qarg.SectionType = "SKU_ID" /\ pc = "done"
       \/ qarg.SectionType = "DEFAULT_STORES" /\ pc = "error"

-----------------------------------------------------------------------------
(* Section headers with several scope triples (SpecHeader) *)

\* The triples of the header s hold COMMON and another value in dimension d
\* (1: the arch, 2: the module type)
MixedIn(s, d) ==
    LET vals == {s[i][d] : i \in DOMAIN s}
        common == IF d = 1 THEN COMMON ELSE <<COMMON>>
    IN  common \in vals /\ Cardinality(vals) > 1

\* Start has just handled a section header, the last line of the file so far
AtHeader == pc \in {"start", "error"} /\ file # <<>> /\ Last(file).k = "SEC"

\* C31: a section header with several triples is rejected with FORMAT_INVALID
\* whenever COMMON stands with another value in the arch dimension or in the
\* module-type dimension; otherwise all its triples become the active scope.
C31_MixedCommonRejected ==
    AtHeader =>
        IF MixedIn(Last(file).s, 1) \/ MixedIn(Last(file).s, 2)
        THEN parser.Error = "FORMAT_INVALID"
        ELSE parser.Error = "" /\ parser.Scope = Last(file).s

\* The part of C31 on the arch dimension alone
C31_MixedArchRejected ==
    AtHeader =>
        IF MixedIn(Last(file).s, 1)
        THEN parser.Error = "FORMAT_INVALID"
        ELSE parser.Error = "" /\ parser.Scope = Last(file).s

\* A header that mixes COMMON with a module type has been accepted
C31_Witness ==
    AtHeader /\ MixedIn(Last(file).s, 2) /\ parser.Error = "" /\ pc = "start"

-----------------------------------------------------------------------------
(* DEFINE and EDK_GLOBAL lines in the raw parse (SpecDefine) *)

\* Start takes the line that becomes the last of the file
TakesLine(k) == pc = "start" /\ Len(file') = Len(file) + 1 /\ Last(file').k = k

\* ps holds the macro of the line under the key of the section and scope
InSectionMacros(ps, key, line) ==
    \E i \in DOMAIN ps.SectionsMacroDict :
        /\ ps.SectionsMacroDict[i].key = key
        /\ <<line.a>> \in DOMAIN ps.SectionsMacroDict[i].macros
        /\ ps.SectionsMacroDict[i].macros[<<line.a>>] = line.b

InFileLocalMacros(ps, line) ==
    <<line.a>> \in DOMAIN ps.FileLocalMacros /\ ps.FileLocalMacros[<<line.a>>] = line.b

\* The DEFINE line just taken is stored where the section puts it
DefineStored ==
    IF parser.SectionType = "HEADER"
    THEN InFileLocalMacros(parser', Last(file'))
    ELSE InSectionMacros(parser', <<parser.SectionType, parser.Scope>>, Last(file'))

\* The EDK_GLOBAL line just taken is accepted in the header section alone
GlobalOnlyInHeader ==
    IF parser.SectionType = "HEADER"
    THEN parser'.Error \in {"", "FORMAT_INVALID"}
    ELSE parser'.Error = "FORMAT_INVALID"

\* C32: a DEFINE line is stored in FileLocalMacros when the active section
\* is [Defines] and otherwise in the section macros under the key (section
\* type, active scope triples); an EDK_GLOBAL line is accepted only inside
\* [Defines] of a platform file and raises FORMAT_INVALID anywhere else.
C32_DefineAndGlobal ==
    [][/\ TakesLine("DEFINE") => DefineStored
       /\ TakesLine("EDK_GLOBAL") => GlobalOnlyInHeader]_vars

\* C32 for the lines that stand in a section and in no conditional block
C32_InSectionOutsideConditionals ==
    [][(parser.SectionType # UNKNOWN /\ parser.InDirective = -1) =>
          /\ TakesLine("DEFINE") => DefineStored
          /\ TakesLine("EDK_GLOBAL") => GlobalOnlyInHeader]_vars

\* An EDK_GLOBAL line ahead of every section header has been taken without
\* an error
C32_Witness ==
    /\ pc = "start"
    /\ file # <<>>
    /\ \A i \in DOMAIN file : file[i].k # "SEC"
    /\ Last(file).k = "EDK_GLOBAL"

-----------------------------------------------------------------------------
(* Conditional blocks with literal conditions (SpecLit).  What a file means *)
(* is told from its lines alone: each open chain of '!if' ... '!endif' has  *)
(* an entry [taken, on], on for the branch the lines now stand in and taken *)
(* for a branch of the chain having been chosen so far.                     *)

LitTrue(line) == line.a = "1"

BranchStep(st, line) ==
    CASE line.k = "IF" -> Append(st, [taken |-> LitTrue(line), on |-> LitTrue(line)])
      [] line.k = "ELSEIF" /\ st # <<>> ->
            SetLast(st, [taken |-> Last(st).taken \/ LitTrue(line),
                         on |-> ~Last(st).taken /\ LitTrue(line)])
      [] line.k = "ELSE" /\ st # <<>> ->
            SetLast(st, [taken |-> TRUE, on |-> ~Last(st).taken])
      [] line.k = "ENDIF" /\ st # <<>> -> SubSeq(st, 1, Len(st) - 1)
      [] OTHER -> st

\* The open chains after line i of the file
RECURSIVE BranchStack(_)
BranchStack(i) == IF i = 0 THEN <<>> ELSE BranchStep(BranchStack(i - 1), file[i])

\* Line i + 1 of the file would stand in an enabled context
EnabledAfter(i) == \A j \in DOMAIN BranchStack(i) : BranchStack(i)[j].on

\* Line i lies inside a false conditional block
InFalseBlock(i) == ~EnabledAfter(i - 1) /\ ~EnabledAfter(i)

LineModel(line) ==
    CASE line.k = "ITEM" -> "PCD_FEATURE_FLAG"
      [] line.k = "SEC" -> "SECTION_HEADER"
      [] OTHER -> line.k

RawRowsOf(i) ==
    {r \in Range(parser.RawTable.CurrentContent) : r.StartLine = i}

ResolvedRowsOf(i) == {r \in Range(Resolved) : r.StartLine = i}

ResolvedQuery == qarg # NoResult /\ Len(qarg) > 1 /\ qarg[2] # None

-----------------------------------------------------------------------------
(* The two directive stacks of _PostProcess (SpecStack) *)

\* _PostProcess is at work or has ended, on the stream of a raw parse that
\* ran to its end
PostProcessing == ~parser.TableIsRaw /\ (pc \in {"post", "error"} \/ parser.PostProcessed)

-----------------------------------------------------------------------------
(* The branches of one conditional chain (SpecChain).  The chain opened by    *)
(* the '!if' of line i runs to its '!endif'; its boundaries are these two   *)
(* lines and the '!elseif' and '!else' lines of the same depth between them. *)

Depth(i) == Len(BranchStack(i))

Closers(i) == {j \in DOMAIN file : j > i /\ file[j].k = "ENDIF" /\ Depth(j) = Depth(i) - 1}

ChainEnd(i) == CHOOSE e \in Closers(i) : \A j \in Closers(i) : e <= j

Boundaries(i) ==
    {i, ChainEnd(i)} \cup
    {j \in (i + 1)..(ChainEnd(i) - 1) :
        file[j].k \in {"ELSEIF", "ELSE"} /\ Depth(j) = Depth(i)}

\* The lines of the branches of the chain
Interior(i) == ((i + 1)..(ChainEnd(i) - 1)) \ Boundaries(i)

\* The boundary that opens the branch of line j
BranchOf(i, j) ==
    CHOOSE b \in Boundaries(i) : b < j /\ \A c \in Boundaries(i) : c < j => c <= b

ChainRows(i) == {r \in Range(Resolved) : r.StartLine \in Interior(i)}

\* The rows of the lines that stand in a branch of the chain itself and not
\* in a chain nested in it
DirectRows(i) ==
    {r \in ChainRows(i) : file[r.StartLine].k = "ITEM" /\ Depth(r.StartLine) = Depth(i)}

AtMostOneBranch(i) ==
    \A r1, r2 \in ChainRows(i) :
        Truthy(r1.Enabled) /\ Truthy(r2.Enabled)
            => BranchOf(i, r1.StartLine) = BranchOf(i, r2.StartLine)

OneElse(i) == Cardinality({b \in Boundaries(i) : file[b].k = "ELSE"}) = 1

ExactlyOneBranch(i) ==
    \E b \in Boundaries(i) \ {ChainEnd(i)} :
        \A r \in DirectRows(i) : Truthy(r.Enabled) <=> BranchOf(i, r.StartLine) = b

\* The Enabled flag of the row stored last before the row r, True when r is
\* the first row
EnabledBefore(r) ==
    IF \E q \in Range(Resolved) : q.ID = r.ID - 1
    THEN (CHOOSE q \in Range(Resolved) : q.ID = r.ID - 1).Enabled
    ELSE PyBool(TRUE)

StateRestored(i) ==
    \A r \in ResolvedRowsOf(i), q \in ResolvedRowsOf(ChainEnd(i)) :
        q.Enabled = EnabledBefore(r)

-----------------------------------------------------------------------------
(* The end flag of the raw tables and the Finished flag (SpecStack) *)

\* The table the parser registered for path works on
TableOf(path) == glob.ObjectCache[glob.MetaFiles[path].Table]

\* A parser is marked finished only over a raw table that ends with the
\* end flag: the top-level parser and the parsers of the included files
FinishedHasSentinel ==
    /\ parser.Finished => IsIntegrity(parser.RawTable)
    /\ \A path \in DOMAIN glob.MetaFiles :
            glob.MetaFiles[path].Finished => IsIntegrity(TableOf(path))

\* No raw table holds a row after an end flag, as it would when Start had
\* run on a table that ended with the flag
SentinelLast ==
    \A t \in RawTables : \A i \in DOMAIN t.CurrentContent :
        t.CurrentContent[i].ID < 0 => i = Len(t.CurrentContent)

\* The parse of the file included last ended with an error
IncludedAborted(path) == parser.Error # "" /\ ~glob.MetaFiles[path].Finished

\* C36: a raw parse that aborts with an error leaves the raw table without
\* the end flag and the parser not marked finished; a parser is marked
\* finished only when its raw table ends with the end flag; Start is never
\* run on a table that already ends with it.
C36_SentinelAndFinished ==
    [][/\ FinishedHasSentinel'
       /\ SentinelLast'
       /\ (pc = "start" /\ pc' = "error")
             => ~IsIntegrity(parser'.RawTable) /\ ~parser'.Finished
       /\ \A path \in DOMAIN glob'.MetaFiles :
             IncludedAborted(path)' => ~IsIntegrity(TableOf(path))'
       /\ (pc # "start" /\ pc' = "start") => ~IsIntegrity(parser.RawTable)]_vars

\* The raw parse of the top-level file has aborted after it had stored rows,
\* or the raw parse of an included file has
C36_Witness ==
    /\ pc = "error"
    /\ \/ parser.TableIsRaw /\ parser.RawTable.CurrentContent # <<>>
       \/ \E path \in DOMAIN glob.MetaFiles :
             IncludedAborted(path) /\ TableOf(path).CurrentContent # <<>>

-----------------------------------------------------------------------------
(* Component blocks in the raw parse (SpecComp) *)

\* Start takes a line, which becomes the last of the file, without error
TakesAny == pc = "start" /\ Len(file') = Len(file) + 1 /\ parser'.Error = ""

\* The rows the step has added to the raw table
NewRawRows ==
    {parser'.RawTable.CurrentContent[i] :
        i \in (Len(parser.RawTable.CurrentContent) + 1)..Len(parser'.RawTable.CurrentContent)}

ComponentIds ==
    {r.ID : r \in {q \in Range(parser'.RawTable.CurrentContent) : q.Model = "COMPONENT"}}

\* The sub-section state is entered by a component line that ends with '{'
\* and left by '}'
SubsectionState ==
    /\ (Last(file').k = "OPEN" /\ parser.SectionType = "COMPONENT" /\ ~parser.InSubsection)
            => parser'.InSubsection
    /\ (Last(file').k = "CLOSE" /\ parser.InSubsection) => ~parser'.InSubsection

\* The rows of a line inside a block belong to a component row, the rows of
\* a line outside belong to no item
OwnerIsComponent ==
    \A r \in NewRawRows :
        IF parser.InSubsection THEN r.BelongsToItem \in ComponentIds
        ELSE r.BelongsToItem = -1

\* C37: in the raw parse of a platform file a component line that ends with
\* '{' enters the sub-section state and every record up to the matching '}'
\* has BelongsToItem equal to the id of a component record; after '}' the
\* parser has left the sub-section state and every later top-level record
\* has BelongsToItem = -1, for any number of successive blocks.
C37_SubsectionOwner ==
    [][TakesAny => SubsectionState /\ OwnerIsComponent]_vars

\* No line of a block stands ahead of the first sub-section header of the
\* block: no row of unknown model belongs to an item
NoUnknownInBlock ==
    \A r \in Range(parser'.RawTable.CurrentContent) :
        r.Model = UNKNOWN => r.BelongsToItem = -1

\* C37 for the blocks whose lines all stand under a sub-section header
C37_UnderSubsectionHeaders ==
    [][(TakesAny /\ NoUnknownInBlock) => SubsectionState /\ OwnerIsComponent]_vars

\* A record has been stored under the sub-section header of the second
\* block of a file
C37_Witness ==
    /\ pc = "start"
    /\ parser.InSubsection
    /\ parser.SubsectionType = "LIBRARY_CLASS"
    /\ Cardinality({i \in DOMAIN file : file[i].k = "OPEN"}) = 2
    /\ Cardinality({i \in DOMAIN file : file[i].k = "CLOSE"}) = 1

-----------------------------------------------------------------------------
(* Component blocks under a header of two archs (SpecArch2) *)

\* The row r belongs to a component row of its own arch
OwnerOfSameArch(r) ==
    \E c \in Range(parser'.RawTable.CurrentContent) :
        c.Model = "COMPONENT" /\ c.ID = r.BelongsToItem /\ c.Scope1 = r.Scope1

\* C38: under a [Components] header of several archs every sub-section
\* record stored for the arch A has BelongsToItem equal to the id of the
\* component record stored for the same arch A, never of another arch.
C38_OwnerOfSameArch ==
    [][(TakesAny /\ parser.InSubsection) =>
          \A r \in NewRawRows : OwnerOfSameArch(r)]_vars

\* C38 for the lines under a sub-section header other than '!error'
C38_ItemsUnderSubsectionHeaders ==
    [][(TakesAny /\ parser.InSubsection /\ NoUnknownInBlock /\ Last(file').k # "ERROR") =>
          \A r \in NewRawRows : OwnerOfSameArch(r)]_vars

\* The library class line of a block has been stored once for each of the
\* two archs
C38_Witness ==
    /\ pc = "start"
    /\ parser.InSubsection
    /\ file # <<>>
    /\ Last(file).k = "ITEM"
    /\ \A a \in {"IA32", "X64"} :
          \E r \in Range(parser.RawTable.CurrentContent) :
              r.Model = "LIBRARY_CLASS" /\ r.Scope1 = a /\ r.StartLine = Len(file)

-----------------------------------------------------------------------------
(* '!include' under conditions that are literals (SpecIncOff) *)

\* _PostProcess is about to take an '!include' record of the file that
\* stands in a disabled conditional context
TakesDisabledInclude ==
    /\ pc = "post"
    /\ parser.ContentIndex < Len(parser.Content)
    /\ parser.Content[parser.ContentIndex + 1].Model = "INCLUDE"
    /\ ~EnabledAfter(parser.Content[parser.ContentIndex + 1].StartLine - 1)

-----------------------------------------------------------------------------
(* The PCD of a file and the conditions on it (SpecVis) *)

(* The context of each line is worked out from the text of the file.  ref  *)
(* is [st, vis]: st the open chains as in BranchStack, vis the PCD having  *)
(* been set by a line of an enabled context so far.  A condition that      *)
(* names the PCD holds when vis does; v0 is vis at the head of the file,   *)
(* FALSE for a first run.                                                  *)

RefTrue(line, vis) == line.a = "1" \/ (line.a = "gTok.P" /\ vis)

RefOn(st) == \A j \in DOMAIN st : st[j].on

\* Line i is a PCD line under a section header
PcdLine(i) == file[i].k = "ITEM" /\ \E j \in 1..(i - 1) : file[j].k = "SEC"

RefStep(ref, i) ==
    LET st == ref.st
        line == file[i]
    IN  CASE line.k = "IF" ->
                [ref EXCEPT !.st = Append(st, [taken |-> RefTrue(line, ref.vis),
                                               on |-> RefTrue(line, ref.vis)])]
          [] line.k = "ELSE" /\ st # <<>> ->
                [ref EXCEPT !.st = SetLast(st, [taken |-> TRUE, on |-> ~Last(st).taken])]
          [] line.k = "ENDIF" /\ st # <<>> ->
                [ref EXCEPT !.st = SubSeq(st, 1, Len(st) - 1)]
          [] PcdLine(i) /\ RefOn(st) -> [ref EXCEPT !.vis = TRUE]
          [] OTHER -> ref

RECURSIVE Ref(_, _)
Ref(i, v0) == IF i = 0 THEN [st |-> <<>>, vis |-> v0] ELSE RefStep(Ref(i - 1, v0), i)

\* Line i stands in a disabled context, whether or not the PCD was known
\* at the head of the file
InDisabledContext(i) == \A v0 \in BOOLEAN : ~RefOn(Ref(i - 1, v0).st)

\* The PCD is known to the expressions and to the macro substitution
PcdVisible(ps, g) == ps.Symbols # EmptyDict \/ g.gPlatformPcds # EmptyDict

\* _PostProcess is about to take the PCD record of a line of a disabled
\* context
TakesDisabledPcd ==
    /\ pc = "post"
    /\ parser.ContentIndex < Len(parser.Content)
    /\ parser.Content[parser.ContentIndex + 1].Model = "PCD_FEATURE_FLAG"
    /\ InDisabledContext(parser.Content[parser.ContentIndex + 1].StartLine)

====
